---- MODULE Spec2Model ----
(***************************************************************************)
(* Model of the cache access layer of the blog application:                *)
(*   - RedisClient (blog-list/utils/redis.js): connect / retry / events /  *)
(*     getClient / isReady / disconnect                                    *)
(*   - the cache facade get / set / del / clearPattern                     *)
(*   - application start-up and shutdown (initializeRedis,                 *)
(*     gracefulShutdown, the process.on handlers)                          *)
(*   - the health, readiness and liveness endpoints (controllers/health.js)*)
(*   - the cache middleware cacheResponse / invalidateCache, their key     *)
(*     and invalidation policies                                           *)
(* The cache service and the node-redis socket are the environment.        *)
(***************************************************************************)
EXTENDS Integers, Sequences, FiniteSets, TLC

VARIABLES
  client,          \* this.client: the transport client the manager holds
  orphans,         \* clients the manager created and no longer references, still open
  isConnected,     \* this.isConnected
  retryAttempts,   \* this.retryAttempts
  connPc,          \* position of the connect() invocation in flight
  connCaller,      \* who invoked it: initializeRedis or a retry timer
  connResult,      \* how the connect() invocation that settled in the last step did so
  retryTimer,      \* delay (ms) of the pending setTimeout of connect(), -1 if none
  initLog,         \* the branch initializeRedis took in the last step
  proc,            \* the process: running, shutdown (gracefulShutdown in flight), exited
  shutdownSignal,  \* the argument of gracefulShutdown
  discPc,          \* position of the disconnect() invocation in flight
  serviceUp,       \* environment: the cache service is reachable
  everUp,          \* history: the cache service was reachable at some moment
  healthReport,    \* the report detailedHealthCheck sent in the last step
  store,           \* the cache service's keyspace: key -> entry
  clear,           \* the clearPattern invocation in flight, between KEYS and DEL
  lastOp,          \* the facade call that returned in the last step, and what it did
  lastSet,         \* history: per key, the last set the service accepted
  cleared,         \* history: the patterns a caller cleared with no key stored since
  elapses,         \* number of time steps taken so far
  req,             \* the request in flight on a cacheResponse route, between the
                   \* middleware and its handler
  wreq,            \* the request in flight on an invalidateCache route
  inval,           \* the invalidateCachePatterns call in flight
  otherInval,      \* the invalidateCachePatterns call of a second write in flight
  mwOut,           \* the response sent in the last step, and how it came about
  db               \* environment: the version of the blogs in the database

connVars == <<client, orphans, isConnected, retryAttempts, connPc, connCaller,
              retryTimer>>
procVars == <<proc, shutdownSignal, discPc>>
envVars == <<serviceUp, everUp>>
cacheVars == <<store, clear, lastSet, cleared, elapses>>
obsVars == <<healthReport, lastOp, connResult, initLog>>
mwVars == <<req, wreq, inval, otherInval, mwOut, db>>
vars == <<connVars, procVars, envVars, obsVars, cacheVars, mwVars>>

----------------------------------------------------------------------------
(* Bounds of the model *)

\* clients that stay open after the manager replaced them
MaxOrphans == 1
\* time steps the clock takes
MaxElapse == 2
\* writes committed to the database
MaxWrites == 1

(* Program constants *)

maxRetries == 5
retryDelay == 1000
MaxSocketDelay == 5000
DefaultTtl == 300

----------------------------------------------------------------------------
(* JavaScript values *)

JsVal(t, b, n, s, a) == [t |-> t, b |-> b, n |-> n, s |-> s, a |-> a]
Undefined == JsVal("undefined", FALSE, 0, <<>>, <<>>)
Null == JsVal("null", FALSE, 0, <<>>, <<>>)
JsBool(b) == JsVal("bool", b, 0, <<>>, <<>>)
JsNum(n) == JsVal("num", FALSE, n, <<>>, <<>>)
JsStr(s) == JsVal("str", FALSE, 0, s, <<>>)
JsArr(a) == JsVal("arr", FALSE, 0, <<>>, a)

\* ToBoolean: what `if (x)` tests
Truthy(v) ==
  CASE v.t = "undefined" -> FALSE
    [] v.t = "null" -> FALSE
    [] v.t = "bool" -> v.b
    [] v.t = "num" -> v.n # 0
    [] v.t = "str" -> Len(v.s) > 0
    [] OTHER -> TRUE

----------------------------------------------------------------------------
(* JSON.stringify and JSON.parse over strings held as sequences of characters *)

Digits == <<"0", "1", "2", "3", "4", "5", "6", "7", "8", "9">>

RECURSIVE NumToStr(_)
NumToStr(n) ==
  IF n < 0 THEN <<"-">> \o NumToStr(0 - n)
  ELSE IF n < 10 THEN <<Digits[n + 1]>>
  ELSE NumToStr(n \div 10) \o <<Digits[(n % 10) + 1]>>

\* the characters of a string literal: a quote and a backslash are escaped
RECURSIVE Escape(_)
Escape(s) ==
  IF s = <<>> THEN <<>>
  ELSE (IF Head(s) \in {"\"", "\\"} THEN <<"\\", Head(s)>> ELSE <<Head(s)>>)
       \o Escape(Tail(s))

\* JSON.stringify(v); for undefined the result is undefined, not a string
RECURSIVE Stringify(_)
StringifyElems(a) ==
  LET RECURSIVE Join(_)
      Join(i) ==
        IF i > Len(a) THEN <<>>
        ELSE (IF i > 1 THEN <<",">> ELSE <<>>)
             \o (IF a[i].t = "undefined" THEN <<"n", "u", "l", "l">> ELSE Stringify(a[i]))
             \o Join(i + 1)
  IN Join(1)
Stringify(v) ==
  CASE v.t = "null" -> <<"n", "u", "l", "l">>
    [] v.t = "bool" -> IF v.b THEN <<"t", "r", "u", "e">> ELSE <<"f", "a", "l", "s", "e">>
    [] v.t = "num" -> NumToStr(v.n)
    [] v.t = "str" -> <<"\"">> \o Escape(v.s) \o <<"\"">>
    [] v.t = "arr" -> <<"[">> \o StringifyElems(v.a) \o <<"]">>

\* JSON.parse: a recursive-descent parser; a result is [ok, val, pos], pos being the
\* index after the value; ok = FALSE stands for the SyntaxError it throws.
\* Whitespace, fractions, exponents and objects are outside the values modelled.
ParseFail == [ok |-> FALSE, val |-> Undefined, pos |-> 0]
ParseOk(v, pos) == [ok |-> TRUE, val |-> v, pos |-> pos]

HasAt(s, i, word) ==
  /\ i + Len(word) - 1 <= Len(s)
  /\ SubSeq(s, i, i + Len(word) - 1) = word

DigitVal(c) == CHOOSE d \in 0 .. 9 : Digits[d + 1] = c
IsDigit(c) == \E d \in 0 .. 9 : Digits[d + 1] = c

RECURSIVE ParseDigits(_, _, _)
ParseDigits(s, i, acc) ==
  IF i <= Len(s) /\ IsDigit(s[i])
  THEN ParseDigits(s, i + 1, acc * 10 + DigitVal(s[i]))
  ELSE ParseOk(JsNum(acc), i)

ParseNumber(s, i) ==
  LET neg == s[i] = "-"
      j == IF neg THEN i + 1 ELSE i
  IN IF j > Len(s) \/ ~IsDigit(s[j]) THEN ParseFail
     ELSE IF s[j] = "0" /\ j + 1 <= Len(s) /\ IsDigit(s[j + 1]) THEN ParseFail
     ELSE LET r == ParseDigits(s, j, 0)
          IN IF neg THEN ParseOk(JsNum(0 - r.val.n), r.pos) ELSE r

RECURSIVE ParseChars(_, _, _)
ParseChars(s, i, acc) ==
  IF i > Len(s) THEN ParseFail
  ELSE IF s[i] = "\"" THEN ParseOk(JsStr(acc), i + 1)
  ELSE IF s[i] = "\\"
       THEN IF i + 1 <= Len(s) /\ s[i + 1] \in {"\"", "\\"}
            THEN ParseChars(s, i + 2, Append(acc, s[i + 1]))
            ELSE ParseFail
  ELSE ParseChars(s, i + 1, Append(acc, s[i]))

RECURSIVE ParseValue(_, _)
RECURSIVE ParseElems(_, _, _)
ParseElems(s, i, acc) ==
  LET r == ParseValue(s, i)
  IN IF ~r.ok THEN ParseFail
     ELSE IF r.pos > Len(s) THEN ParseFail
     ELSE IF s[r.pos] = "," THEN ParseElems(s, r.pos + 1, Append(acc, r.val))
     ELSE IF s[r.pos] = "]" THEN ParseOk(JsArr(Append(acc, r.val)), r.pos + 1)
     ELSE ParseFail
ParseValue(s, i) ==
  IF i > Len(s) THEN ParseFail
  ELSE IF HasAt(s, i, <<"n", "u", "l", "l">>) THEN ParseOk(Null, i + 4)
  ELSE IF HasAt(s, i, <<"t", "r", "u", "e">>) THEN ParseOk(JsBool(TRUE), i + 4)
  ELSE IF HasAt(s, i, <<"f", "a", "l", "s", "e">>) THEN ParseOk(JsBool(FALSE), i + 5)
  ELSE IF s[i] = "\"" THEN ParseChars(s, i + 1, <<>>)
  ELSE IF s[i] = "[" THEN
       IF HasAt(s, i, <<"[", "]">>) THEN ParseOk(JsArr(<<>>), i + 2)
       ELSE ParseElems(s, i + 1, <<>>)
  ELSE IF s[i] = "-" \/ IsDigit(s[i]) THEN ParseNumber(s, i)
  ELSE ParseFail

\* JSON.parse(s): the whole text must be one value
Parse(s) ==
  LET r == ParseValue(s, 1)
  IN IF r.ok /\ r.pos = Len(s) + 1 THEN r ELSE ParseFail

----------------------------------------------------------------------------
(* The transport client (node-redis) as the manager sees it *)

\* st: "null" (this.client = null), "connecting" (client.connect() pending),
\* "ready", "reconnecting" (socket lost after ready), "closed" (isOpen = false)
\* retries: the socket's retry counter; wait: the delay (ms) it was told to wait
\* before the attempt it makes next, -1 if none (the step that makes an attempt
\* includes the end of that wait)
\* q: a quit() issued on this client is pending
Client(st, retries, wait, q) == [st |-> st, retries |-> retries, wait |-> wait, q |-> q]
NoClient == Client("null", 0, -1, FALSE)
NewClient == Client("connecting", 0, -1, FALSE)

IsOpen(c) == c.st \in {"connecting", "ready", "reconnecting"}

Min(a, b) == IF a < b THEN a ELSE b

\* socket.reconnectStrategy: -1 stands for `false` (give up)
reconnectStrategy(retries) ==
  IF retries > maxRetries THEN -1
  ELSE Min(retries * retryDelay, MaxSocketDelay)

\* isReady() looking at the flag alone
isReadyFlagOnly == isConnected

\* RedisClient.isReady()
isReady == isConnected /\ client.st = "ready"

\* RedisClient.getClient(): TRUE when it returns this.client, FALSE when it throws
getClientOk == client.st # "null" /\ isConnected

\* reading a property of the redisClient object: the constructor and connect()
\* assign client, isConnected, retryAttempts, maxRetries, retryDelay and nothing else
ManagerField(name) ==
  CASE name = "isConnected" -> JsBool(isConnected)
    [] name = "retryAttempts" -> JsNum(retryAttempts)
    [] name = "maxRetries" -> JsNum(maxRetries)
    [] name = "retryDelay" -> JsNum(retryDelay)
    [] OTHER -> Undefined

----------------------------------------------------------------------------
(* Initial state: the module-level singleton right after `new RedisClient()` *)

NoResult == [caller |-> "none", outcome |-> "none", value |-> Undefined, ready |-> FALSE]
NoInitLog == [branch |-> "none", ready |-> FALSE]
NoOp == [op |-> "none"]
NoReq == [pc |-> "idle"]
NoInval == [pc |-> "idle"]
NoMwOut == [mw |-> "none"]
NoReport == [taken |-> FALSE, httpStatus |-> 0, status |-> "none", connected |-> FALSE,
             isOpen |-> Undefined, failures |-> Undefined, hasResponseTime |-> FALSE,
             atRetryAttempts |-> 0, top |-> "none", state |-> "none", answered |-> FALSE]

InitConn ==
  /\ client = NoClient
  /\ orphans = <<>>
  /\ isConnected = FALSE
  /\ retryAttempts = 0
  /\ connPc = "notStarted"
  /\ connCaller = "none"
  /\ connResult = NoResult
  /\ retryTimer = -1
  /\ initLog = NoInitLog
  /\ proc = "running"
  /\ shutdownSignal = "none"
  /\ discPc = "idle"
  /\ serviceUp \in BOOLEAN
  /\ everUp = serviceUp
  /\ healthReport = NoReport
  /\ lastOp = NoOp

\* healthReport, lastOp, connResult and initLog describe the step just taken: any
\* other step clears them
Unobserved == healthReport' = NoReport /\ lastOp' = NoOp
Unsettled == connResult' = NoResult /\ initLog' = NoInitLog

\* nothing is waiting to be taken by a caller
Quiet ==
  /\ healthReport = NoReport /\ lastOp = NoOp
  /\ connResult = NoResult /\ initLog = NoInitLog
  /\ mwOut = NoMwOut

\* the caller of the step just taken has its result; the program moves on
TakeResult ==
  /\ ~Quiet
  /\ Unobserved
  /\ Unsettled
  /\ mwOut' = NoMwOut
  /\ UNCHANGED <<connVars, procVars, envVars, cacheVars, req, wreq, inval, db, otherInval>>

----------------------------------------------------------------------------
(* setupEventListeners: what each event handler assigns to this.isConnected *)

OnReady == TRUE
OnError == FALSE
OnEnd == FALSE

----------------------------------------------------------------------------
(* Application start-up and shutdown *)

\* the process-level state as one record, so that one step can apply several
\* effects to it in order
ProcRec == [proc |-> proc, sig |-> shutdownSignal, disc |-> discPc]
SetProc(r) == proc' = r.proc /\ shutdownSignal' = r.sig /\ discPc' = r.disc

\* gracefulShutdown(signal) up to its first await: redisClient.disconnect() runs
\* to `await this.client.quit()` when this.client is set; quit() on a client that
\* is not open rejects at once, which disconnect() catches. c is this.client.
\* A second gracefulShutdown while one is in flight is not modelled.
GracefulShutdownStart(r, signal, c) ==
  IF r.proc = "running"
  THEN [proc |-> "shutdown", sig |-> signal,
        disc |-> IF IsOpen(c) THEN "quitting" ELSE "done"]
  ELSE r

\* the pending quit() of disconnect() settles (resolves, or rejects into the catch)
QuitSettles(r) == [r EXCEPT !.disc = "done"]

\* the value a connect() invocation resolves to: the method has no return statement
connectReturn == Undefined

\* initializeRedis: the branch taken once `await redisClient.connect()` settled
InitBranch(outcome, value) ==
  IF outcome = "rejected" THEN "error"
  ELSE IF Truthy(value) THEN "success" ELSE "failed"

\* a connect() invocation settles. From initializeRedis the promise is awaited in a
\* try/catch; from the retry timer `() => this.connect()` nobody handles a
\* rejection, so the process emits unhandledRejection, whose handler starts
\* gracefulShutdown. c is this.client, connected is this.isConnected, r the
\* process-level state, all at that moment.
ConnectSettles(outcome, c, connected, r) ==
  /\ connPc' = "idle"
  /\ connCaller' = "none"
  /\ connResult' = [caller |-> connCaller, outcome |-> outcome,
                     value |-> IF outcome = "resolved" THEN connectReturn ELSE Undefined,
                     ready |-> connected /\ c.st = "ready"]
  /\ initLog' = IF connCaller = "init"
                 THEN [branch |-> InitBranch(outcome, connectReturn),
                       ready |-> connected /\ c.st = "ready"]
                 ELSE NoInitLog
  /\ IF outcome = "rejected" /\ connCaller = "timer"
     THEN SetProc(GracefulShutdownStart(r, "unhandledRejection", c))
     ELSE SetProc(r)

\* the catch block of connect()
ConnectCatch(c, r) ==
  /\ isConnected' = FALSE
  /\ retryAttempts' = retryAttempts + 1
  /\ IF retryAttempts + 1 < maxRetries
     THEN /\ retryTimer' = retryDelay
          /\ ConnectSettles("resolved", c, FALSE, r)
     ELSE /\ retryTimer' = retryTimer
          /\ ConnectSettles("rejected", c, FALSE, r)

\* connect() from its entry to `await this.client.connect()`: a new client replaces
\* this.client; the previous one is not closed
ConnectBegin(caller) ==
  /\ client' = NewClient
  /\ orphans' = IF IsOpen(client) THEN Append(orphans, client) ELSE orphans
  /\ connPc' = "awaitConnect"
  /\ connCaller' = caller

InitializeRedis ==
  /\ Quiet
  /\ UNCHANGED mwVars
  /\ proc # "exited"
  /\ connPc = "notStarted"
  /\ ConnectBegin("init")
  /\ UNCHANGED <<isConnected, retryAttempts, retryTimer,
                 procVars, envVars, cacheVars>>
  /\ Unobserved
  /\ Unsettled

RetryTimerFires ==
  /\ Quiet
  /\ UNCHANGED mwVars
  /\ proc # "exited"
  /\ retryTimer >= 0
  /\ connPc = "idle"
  /\ retryTimer' = -1
  /\ ConnectBegin("timer")
  /\ UNCHANGED <<isConnected, retryAttempts,
                 procVars, envVars, cacheVars>>
  /\ Unobserved
  /\ Unsettled

----------------------------------------------------------------------------
(* The socket of a client: who = 0 is this.client, who = i is orphans[i] *)

Who == 0 .. Len(orphans)
ClientAt(who) == IF who = 0 THEN client ELSE orphans[who]

RemoveAt(seq, i) == SubSeq(seq, 1, i - 1) \o SubSeq(seq, i + 1, Len(seq))

\* a superseded client that closed is unreachable and is dropped
PutClient(who, c) ==
  IF who = 0
  THEN client' = c /\ orphans' = orphans
  ELSE /\ client' = client
       /\ orphans' = IF IsOpen(c) THEN [orphans EXCEPT ![who] = c]
                      ELSE RemoveAt(orphans, who)

\* the socket of a client whose connect() is pending gets through: 'connect' and
\* 'ready' are emitted, `await this.client.connect()` resolves, and connect()
\* runs on to `await this.client.ping()`
SocketConnects ==
  /\ Quiet
  /\ UNCHANGED mwVars
  /\ proc # "exited"
  /\ connPc = "awaitConnect"
  /\ client.st = "connecting"
  /\ serviceUp
  /\ client' = [client EXCEPT !.st = "ready", !.retries = 0, !.wait = -1]
  /\ isConnected' = TRUE
  /\ retryAttempts' = 0
  /\ connPc' = "awaitPing"
  /\ UNCHANGED <<orphans, connCaller, retryTimer,
                 procVars, envVars, cacheVars>>
  /\ Unobserved
  /\ Unsettled

\* a connection attempt of the pending connect() fails: the socket asks
\* reconnectStrategy; a delay schedules the next attempt and emits 'error';
\* `false` closes the client, emits 'error' and rejects client.connect(), which
\* lands in the catch block of connect()
SocketAttemptFails ==
  /\ Quiet
  /\ UNCHANGED mwVars
  /\ proc # "exited"
  /\ connPc = "awaitConnect"
  /\ client.st = "connecting"
  /\ ~serviceUp
  /\ LET d == reconnectStrategy(client.retries) IN
     IF d >= 0
     THEN /\ client' = [client EXCEPT !.retries = client.retries + 1, !.wait = d]
          /\ isConnected' = OnError
          /\ UNCHANGED <<orphans, retryAttempts, connPc, connCaller,
                         retryTimer, procVars>>
          /\ Unsettled
     ELSE LET c == [client EXCEPT !.st = "closed", !.q = FALSE]
              r == IF client.q THEN QuitSettles(ProcRec) ELSE ProcRec
          IN /\ client' = c
             /\ orphans' = orphans
             /\ ConnectCatch(c, r)
  /\ UNCHANGED <<envVars, cacheVars>>
  /\ Unobserved

\* the socket of a ready client breaks: 'error' is emitted and the socket starts
\* reconnecting on its own (reconnectStrategy(0) is a delay of 0)
SocketError(who) ==
  /\ Quiet
  /\ UNCHANGED mwVars
  /\ proc # "exited"
  /\ ClientAt(who).st = "ready"
  /\ ~serviceUp
  /\ PutClient(who, [ClientAt(who) EXCEPT !.st = "reconnecting", !.retries = 0,
                                          !.wait = reconnectStrategy(0)])
  /\ isConnected' = OnError
  /\ UNCHANGED <<retryAttempts, connPc, connCaller,
                 retryTimer, procVars, envVars, cacheVars>>
  /\ Unobserved
  /\ Unsettled

\* a reconnecting socket gets through again: 'ready' is emitted
SocketReconnects(who) ==
  /\ Quiet
  /\ UNCHANGED mwVars
  /\ proc # "exited"
  /\ ClientAt(who).st = "reconnecting"
  /\ serviceUp
  /\ PutClient(who, [ClientAt(who) EXCEPT !.st = "ready", !.retries = 0, !.wait = -1])
  /\ isConnected' = OnReady
  /\ UNCHANGED <<retryAttempts, connPc, connCaller,
                 retryTimer, procVars, envVars, cacheVars>>
  /\ Unobserved
  /\ Unsettled

\* an attempt of a reconnecting socket fails: next delay, or the client closes;
\* a quit() queued on it is then rejected
SocketReconnectFails(who) ==
  /\ Quiet
  /\ UNCHANGED mwVars
  /\ proc # "exited"
  /\ ClientAt(who).st = "reconnecting"
  /\ ~serviceUp
  /\ LET c == ClientAt(who)
         d == reconnectStrategy(c.retries)
     IN IF d >= 0
        THEN /\ PutClient(who, [c EXCEPT !.retries = c.retries + 1, !.wait = d])
             /\ UNCHANGED procVars
        ELSE /\ PutClient(who, [c EXCEPT !.st = "closed", !.q = FALSE])
             /\ SetProc(IF c.q THEN QuitSettles(ProcRec) ELSE ProcRec)
  /\ isConnected' = OnError
  /\ UNCHANGED <<retryAttempts, connPc, connCaller,
                 retryTimer, envVars, cacheVars>>
  /\ Unobserved
  /\ Unsettled

\* the ping of connect() is answered
PingOk ==
  /\ Quiet
  /\ UNCHANGED mwVars
  /\ proc # "exited"
  /\ connPc = "awaitPing"
  /\ client.st = "ready" /\ serviceUp
  /\ ConnectSettles("resolved", client, isConnected, ProcRec)
  /\ UNCHANGED <<client, orphans, isConnected, retryAttempts, retryTimer,
                 envVars, cacheVars>>
  /\ Unobserved

\* the ping of connect() fails (the service stopped answering, or the client
\* closed with the ping queued): the catch block of connect() runs
PingFails ==
  /\ Quiet
  /\ UNCHANGED mwVars
  /\ proc # "exited"
  /\ connPc = "awaitPing"
  /\ \/ client.st = "ready" /\ ~serviceUp /\ Len(orphans) < MaxOrphans
     \/ client.st = "closed"
  /\ ConnectCatch(client, ProcRec)
  /\ UNCHANGED <<client, orphans, envVars, cacheVars>>
  /\ Unobserved

----------------------------------------------------------------------------
(* Environment *)

ServiceDown ==
  /\ Quiet
  /\ UNCHANGED mwVars
  /\ proc # "exited"
  /\ serviceUp
  /\ serviceUp' = FALSE
  /\ UNCHANGED <<everUp, connVars, procVars, cacheVars>>
  /\ Unobserved
  /\ Unsettled

ServiceUp ==
  /\ Quiet
  /\ UNCHANGED mwVars
  /\ proc # "exited"
  /\ ~serviceUp
  /\ serviceUp' = TRUE
  /\ everUp' = TRUE
  /\ UNCHANGED <<connVars, procVars, cacheVars>>
  /\ Unobserved
  /\ Unsettled

\* SIGTERM / SIGINT / an uncaught exception elsewhere in the application
Signals == {"SIGTERM", "SIGINT", "uncaughtException"}

\* the handlers are registered after initializeRedis() was called
Signal(sig) ==
  /\ Quiet
  /\ UNCHANGED mwVars
  /\ proc = "running"
  /\ connPc # "notStarted"
  /\ SetProc(GracefulShutdownStart(ProcRec, sig, client))
  /\ client' = [client EXCEPT !.q = IsOpen(client)]
  /\ UNCHANGED <<orphans, isConnected, retryAttempts, connPc, connCaller,
                 retryTimer, envVars, cacheVars>>
  /\ Unobserved
  /\ Unsettled

\* disconnect(): quit() is answered; the client closes and emits 'end'
QuitOk(who) ==
  /\ Quiet
  /\ UNCHANGED mwVars
  /\ proc # "exited"
  /\ discPc = "quitting"
  /\ ClientAt(who).q /\ ClientAt(who).st = "ready" /\ serviceUp
  /\ PutClient(who, [ClientAt(who) EXCEPT !.st = "closed", !.q = FALSE])
  /\ isConnected' = FALSE
  /\ SetProc(QuitSettles(ProcRec))
  /\ UNCHANGED <<retryAttempts, connPc, connCaller,
                 retryTimer, envVars, cacheVars>>
  /\ Unobserved
  /\ Unsettled

\* gracefulShutdown after disconnect() returned: process.exit
ProcessExit ==
  /\ Quiet
  /\ UNCHANGED mwVars
  /\ proc = "shutdown"
  /\ discPc = "done"
  /\ proc' = "exited"
  /\ UNCHANGED <<shutdownSignal, discPc, connVars, envVars, cacheVars>>
  /\ Unobserved
  /\ Unsettled

----------------------------------------------------------------------------
(* The situation of a call, as its caller could know it *)

\* a command issued on the client getClient() returned is executed iff the service
\* answers and the client is not closed
Answers == serviceUp /\ client.st # "closed"

\* the Connection State of the manager: Ready is what isReady() reports when both
\* the flag and the client agree; CircuitOpen is the state past the retry limit
ConnectionState ==
  IF isConnected /\ client.st = "ready" THEN "Ready"
  ELSE IF retryAttempts >= maxRetries THEN "CircuitOpen"
  ELSE IF client.st \in {"connecting", "reconnecting"} THEN "Connecting"
  ELSE "Disconnected"

\* the situation in which a facade call is made
CallCtx == [state |-> ConnectionState, answered |-> Answers]

----------------------------------------------------------------------------
(* controllers/health.js *)

\* a health endpoint that answers 503 'degraded' unless redis is healthy
HealthStatusGated(redisStatus) ==
  IF redisStatus = "healthy" THEN [httpStatus |-> 200, top |-> "ok"]
  ELSE [httpStatus |-> 503, top |-> "degraded"]

\* healthCheck / detailedHealthCheck: `status: 'ok'` and res.status(200), whatever
\* the redis status
HealthStatus(redisStatus) == [httpStatus |-> 200, top |-> "ok"]

\* detailedHealthCheck: the report it sends; the ping is answered iff the service
\* is reachable, and a failed ping lands in the inner catch
DetailedReport ==
  LET open == ManagerField("isCircuitBreakerOpen")
      base == [taken |-> TRUE, httpStatus |-> 200, status |-> "unknown",
               connected |-> isReady,
               isOpen |-> open,
               failures |-> ManagerField("circuitBreakerFailures"),
               hasResponseTime |-> FALSE,
               atRetryAttempts |-> retryAttempts,
               top |-> "ok", state |-> ConnectionState, answered |-> Answers]
      rep == IF isReady
             THEN IF ~getClientOk THEN [base EXCEPT !.status = "unhealthy"]
                  ELSE IF serviceUp
                       THEN [base EXCEPT !.status = "healthy", !.hasResponseTime = TRUE]
                       ELSE [base EXCEPT !.status = "unhealthy"]
             ELSE IF Truthy(open)
                  THEN [base EXCEPT !.status = "circuit-breaker-open"]
                  ELSE [base EXCEPT !.status = "disconnected"]
  IN [rep EXCEPT !.httpStatus = HealthStatus(rep.status).httpStatus,
                 !.top = HealthStatus(rep.status).top]

DetailedHealthCheck ==
  /\ Quiet
  /\ UNCHANGED mwVars
  /\ proc # "exited"
  /\ healthReport' = DetailedReport
  /\ lastOp' = NoOp
  /\ UNCHANGED <<connVars, procVars, envVars, cacheVars>>
  /\ Unsettled

\* healthCheck: services.redis after the inner try, and the response
BasicReport ==
  LET redis == IF isReady
               THEN IF ~getClientOk THEN "unhealthy"
                    ELSE IF serviceUp THEN "healthy" ELSE "unhealthy"
               ELSE "disconnected"
  IN [mw |-> "health", status |-> HealthStatus(redis).httpStatus,
      top |-> HealthStatus(redis).top, api |-> "healthy", redis |-> redis]

\* a step that answers a probe with report; the response is recorded with the
\* situation the probe was called in
Probe(report) ==
  /\ Quiet
  /\ proc # "exited"
  /\ mwOut' = report @@ [state |-> ConnectionState, answered |-> Answers]
  /\ Unobserved
  /\ Unsettled
  /\ UNCHANGED <<connVars, procVars, envVars, cacheVars, req, wreq, inval, db, otherInval>>

HealthCheck == Probe(BasicReport)

\* a readiness probe that is ready only with the cache
ReadinessReportGated ==
  [mw |-> "readiness", status |-> IF isReady THEN 200 ELSE 503, ready |-> isReady,
   api |-> TRUE, redis |-> isReady]

\* readinessCheck: the response
ReadinessReport ==
  [mw |-> "readiness", status |-> 200, ready |-> TRUE, api |-> TRUE, redis |-> isReady]

ReadinessCheck == Probe(ReadinessReport)

\* a liveness probe that is alive only with the cache
LivenessReportGated ==
  [mw |-> "liveness", status |-> IF isReady THEN 200 ELSE 500, alive |-> isReady,
   hasUptime |-> TRUE]

\* livenessCheck: the response
LivenessReport ==
  [mw |-> "liveness", status |-> 200, alive |-> TRUE, hasUptime |-> TRUE]

LivenessCheck == Probe(LivenessReport)

----------------------------------------------------------------------------
(* The cache service: a keyspace of string values with expiry *)

KeyBlogsList == <<"b", "l", "o", "g", "s", ":", "l", "i", "s", "t">>
KeyBlog1 == <<"b", "l", "o", "g", ":", "1">>
Keys == {KeyBlogsList, KeyBlog1}

PatBlogs == <<"b", "l", "o", "g", "s", ":", "*">>
PatBlog == <<"b", "l", "o", "g", ":", "*">>

\* glob matching of KEYS: `*` matches any run of characters
RECURSIVE GlobMatch(_, _)
GlobMatch(pat, key) ==
  IF pat = <<>> THEN key = <<>>
  ELSE IF Head(pat) = "*"
       THEN \/ GlobMatch(Tail(pat), key)
            \/ key # <<>> /\ GlobMatch(pat, Tail(key))
  ELSE key # <<>> /\ Head(key) = Head(pat) /\ GlobMatch(Tail(pat), Tail(key))

\* an entry: the stored text and its remaining time to live in seconds, -1 if it
\* has no expiry
Entry(json, ex) == [json |-> json, ex |-> ex]

\* GET: the stored text, or nil
RedisGet(st, k) ==
  IF k \in DOMAIN st THEN [nil |-> FALSE, str |-> st[k].json]
  ELSE [nil |-> TRUE, str |-> <<>>]

Put(st, k, e) == [x \in DOMAIN st \cup {k} |-> IF x = k THEN e ELSE st[x]]

\* SETEX key ttl value: an expiry that is not positive is an error reply
RedisSetEx(st, k, ttl, json) ==
  IF ttl <= 0 THEN [err |-> TRUE, st |-> st]
  ELSE [err |-> FALSE, st |-> Put(st, k, Entry(json, ttl))]

\* DEL key [key ...]
RedisDel(st, ks) == [x \in DOMAIN st \ ks |-> st[x]]

\* KEYS pattern
RedisKeys(st, pat) == {k \in DOMAIN st : GlobMatch(pat, k)}

\* d seconds pass: entries whose time to live runs out are gone
RedisElapse(st, d) ==
  LET live == {k \in DOMAIN st : st[k].ex = -1 \/ st[k].ex > d}
  IN [k \in live |-> IF st[k].ex = -1 THEN st[k] ELSE Entry(st[k].json, st[k].ex - d)]

----------------------------------------------------------------------------
(* The cache facade: get / set / del / clearPattern *)

\* what the body of a facade function did: threw (an exception left it), val (what
\* it returned), cmds (commands issued on the transport), st (the keyspace after)
Did(threw, val, cmds, st) == [threw |-> threw, val |-> val, cmds |-> cmds, st |-> st]

\* the catch block of each facade function: log, and return null / undefined
Caught(val, t) == IF t.threw THEN [t EXCEPT !.threw = FALSE, !.val = val] ELSE t

\* get returning `JSON.parse(value) || null`
GetTryTruthyOnly(k) ==
  IF ~isReady THEN Did(FALSE, Null, 0, store)
  ELSE IF ~getClientOk THEN Did(TRUE, Undefined, 0, store)
  ELSE IF ~Answers THEN Did(TRUE, Undefined, 1, store)
  ELSE LET value == RedisGet(store, k)
       IN IF ~value.nil /\ Len(value.str) > 0
          THEN LET r == Parse(value.str)
               IN IF r.ok THEN Did(FALSE, IF Truthy(r.val) THEN r.val ELSE Null, 1, store)
                  ELSE Did(TRUE, Undefined, 1, store)
          ELSE Did(FALSE, Null, 1, store)

\* get: the try block
GetTry(k) ==
  IF ~isReady THEN Did(FALSE, Null, 0, store)
  ELSE IF ~getClientOk THEN Did(TRUE, Undefined, 0, store)
  ELSE IF ~Answers THEN Did(TRUE, Undefined, 1, store)
  ELSE LET value == RedisGet(store, k)
       IN IF ~value.nil /\ Len(value.str) > 0
          THEN LET r == Parse(value.str)
               IN IF r.ok THEN Did(FALSE, r.val, 1, store)
                  ELSE Did(TRUE, Undefined, 1, store)
          ELSE Did(FALSE, Null, 1, store)

\* get returning the error it caught instead of null
getCatchReturnsError(k) == Caught(JsStr(<<"e">>), GetTry(k))

\* get with JSON.parse outside the try block: a SyntaxError leaves get
getParseUncaught(k) ==
  IF isReady /\ getClientOk /\ Answers /\ GetTry(k).threw THEN GetTry(k)
  ELSE Caught(Null, GetTry(k))

get(k) == Caught(Null, GetTry(k))

\* the ttl parameter, `ttl = 300` when the argument is undefined
TtlParam(ttlArg) == IF ttlArg = Undefined THEN DefaultTtl ELSE ttlArg.n

\* set storing with SET, without an expiry
SetTryNoExpiry(k, value, ttlArg) ==
  IF ~isReady THEN Did(FALSE, Undefined, 0, store)
  ELSE IF ~getClientOk THEN Did(TRUE, Undefined, 0, store)
  ELSE IF value.t = "undefined" THEN Did(TRUE, Undefined, 0, store)
  ELSE IF ~Answers THEN Did(TRUE, Undefined, 1, store)
  ELSE Did(FALSE, Undefined, 1, Put(store, k, Entry(Stringify(value), -1)))

\* set: the try block; setEx refuses a value that is not a string (JSON.stringify
\* of undefined) with a TypeError before sending anything
SetTry(k, value, ttlArg) ==
  IF ~isReady THEN Did(FALSE, Undefined, 0, store)
  ELSE IF ~getClientOk THEN Did(TRUE, Undefined, 0, store)
  ELSE IF value.t = "undefined" THEN Did(TRUE, Undefined, 0, store)
  ELSE IF ~Answers THEN Did(TRUE, Undefined, 1, store)
  ELSE LET r == RedisSetEx(store, k, TtlParam(ttlArg), Stringify(value))
       IN Did(r.err, Undefined, 1, r.st)

set(k, value, ttlArg) == Caught(Undefined, SetTry(k, value, ttlArg))

\* del: the try block
DelTry(k) ==
  IF ~isReady THEN Did(FALSE, Undefined, 0, store)
  ELSE IF ~getClientOk THEN Did(TRUE, Undefined, 0, store)
  ELSE IF ~Answers THEN Did(TRUE, Undefined, 1, store)
  ELSE Did(FALSE, Undefined, 1, RedisDel(store, {k}))

del(k) == Caught(Undefined, DelTry(k))

\* clearPattern up to the reply of KEYS; keys is what KEYS returned
ClearKeysTry(pattern) ==
  IF ~isReady THEN Did(FALSE, Undefined, 0, store) @@ [keys |-> {}]
  ELSE IF ~getClientOk THEN Did(TRUE, Undefined, 0, store) @@ [keys |-> {}]
  ELSE IF ~Answers THEN Did(TRUE, Undefined, 1, store) @@ [keys |-> {}]
  ELSE Did(FALSE, Undefined, 1, store) @@ [keys |-> RedisKeys(store, pattern)]

\* the DEL step given the pattern texts in place of the keys found
ClearDelTryByPattern(keys) ==
  IF ~getClientOk THEN Did(TRUE, Undefined, 0, store)
  ELSE IF ~Answers THEN Did(TRUE, Undefined, 1, store)
  ELSE Did(FALSE, Undefined, 1, RedisDel(store, {PatBlogs, PatBlog}))

\* the DEL step failing when a key it was given is no longer stored
ClearDelTryMissingFails(keys) ==
  IF ~getClientOk THEN Did(TRUE, Undefined, 0, store)
  ELSE IF ~Answers \/ ~(keys \subseteq DOMAIN store) THEN Did(TRUE, Undefined, 1, store)
  ELSE Did(FALSE, Undefined, 1, RedisDel(store, keys))

\* clearPattern from `if (keys.length > 0)` on: a second getClient(), then DEL
ClearDelTry(keys) ==
  IF ~getClientOk THEN Did(TRUE, Undefined, 0, store)
  ELSE IF ~Answers THEN Did(TRUE, Undefined, 1, store)
  ELSE Did(FALSE, Undefined, 1, RedisDel(store, keys))

clearPatternKeys(pattern) == Caught(Undefined, ClearKeysTry(pattern))
\* the DEL step outside the try block
clearPatternDelUncaught(keys) == ClearDelTry(keys)
clearPatternDel(keys) == Caught(Undefined, ClearDelTry(keys))

----------------------------------------------------------------------------
(* Facade calls as steps *)

NoClear == [pc |-> "idle"]
NoSet == [set |-> FALSE, val |-> Undefined, arg |-> Undefined, age |-> 0]
\* the history of a key whose last accepted set has outlived its time to live
OutlivedSet == [set |-> TRUE, val |-> Undefined, arg |-> JsNum(0), age |-> 0]

\* has the time to live given to the last accepted set of k run out
Expired(h) == h.set /\ h.age >= (IF h.arg = Undefined THEN 300 ELSE h.arg.n)

\* the record of a facade call that returned: op and key (or pattern), the
\* situation when it was called, what the try block did (caught: an exception was
\* thrown inside and caught), what the caller got (threw, val), the commands issued,
\* whether the keyspace changed, and the history of the key before the call
Returned(op, key, ctx, t, r, changed, h) ==
  [op |-> op, key |-> key, state |-> ctx.state, answered |-> ctx.answered,
   threw |-> r.threw, caught |-> t.threw, val |-> r.val, cmds |-> r.cmds,
   changed |-> changed, hist |-> h]

\* what a clearPattern call adds to its record: the keys KEYS found, whether a key
\* matching the pattern was stored between KEYS and DEL, and whether the pattern
\* had been cleared before with no key stored since
Cleared(found, raced, repeated) ==
  [found |-> found, raced |-> raced, repeated |-> repeated]

CacheGet(k) ==
  /\ Quiet
  /\ UNCHANGED mwVars
  /\ proc # "exited"
  /\ lastOp' = Returned("get", k, CallCtx, GetTry(k), get(k), FALSE, lastSet[k])
  /\ healthReport' = NoReport
  /\ UNCHANGED <<connVars, procVars, envVars, cacheVars>>
  /\ Unsettled

CacheSet(k, value, ttlArg) ==
  /\ Quiet
  /\ UNCHANGED mwVars
  /\ proc # "exited"
  /\ LET r == set(k, value, ttlArg)
         stored == r.cmds = 1 /\ ~SetTry(k, value, ttlArg).threw
     IN /\ store' = r.st
        /\ lastSet' = IF stored
                      THEN [lastSet EXCEPT ![k] = [set |-> TRUE, val |-> value,
                                                   arg |-> ttlArg, age |-> 0]]
                      ELSE lastSet
        /\ cleared' = IF stored THEN {p \in cleared : ~GlobMatch(p, k)} ELSE cleared
        /\ lastOp' = Returned("set", k, CallCtx, SetTry(k, value, ttlArg), r,
                              r.st # store, lastSet[k])
  /\ healthReport' = NoReport
  /\ UNCHANGED <<connVars, procVars, envVars, clear, elapses>>
  /\ Unsettled

CacheDel(k) ==
  /\ Quiet
  /\ UNCHANGED mwVars
  /\ proc # "exited"
  /\ LET r == del(k)
     IN /\ store' = r.st
        /\ lastSet' = IF r.cmds = 1 /\ ~DelTry(k).threw
                      THEN [lastSet EXCEPT ![k] = NoSet] ELSE lastSet
        /\ lastOp' = Returned("del", k, CallCtx, DelTry(k), r, r.st # store, lastSet[k])
  /\ healthReport' = NoReport
  /\ UNCHANGED <<connVars, procVars, envVars, clear, cleared, elapses>>
  /\ Unsettled

\* clearPattern is called and runs to the reply of KEYS; with no key to delete, or
\* after a failure, it returns
ClearPatternKeys(pattern) ==
  /\ Quiet
  /\ UNCHANGED mwVars
  /\ proc # "exited"
  /\ clear.pc = "idle"
  /\ LET t == ClearKeysTry(pattern)
         r == clearPatternKeys(pattern)
     IN IF ~t.threw /\ t.cmds = 1 /\ t.keys # {}
        THEN /\ clear' = [pc |-> "del", pattern |-> pattern, keys |-> t.keys,
                          ctx |-> CallCtx, repeated |-> pattern \in cleared]
             /\ lastOp' = NoOp
             /\ cleared' = cleared
        ELSE /\ clear' = NoClear
             /\ lastOp' = Returned("clearPattern", pattern, CallCtx, t, r, FALSE, NoSet)
                            @@ Cleared(t.keys, FALSE, pattern \in cleared)
             /\ cleared' = IF ~t.threw /\ t.cmds = 1
                            THEN cleared \cup {pattern} ELSE cleared
  /\ healthReport' = NoReport
  /\ UNCHANGED <<connVars, procVars, envVars, store, lastSet, elapses>>
  /\ Unsettled

\* the rest of clearPattern: DEL of the keys found, and return
ClearPatternDel ==
  /\ Quiet
  /\ UNCHANGED mwVars
  /\ proc # "exited"
  /\ clear.pc = "del"
  /\ LET t == ClearDelTry(clear.keys)
         r == clearPatternDel(clear.keys)
         both == [r EXCEPT !.cmds = r.cmds + 1]
         raced == ~(RedisKeys(store, clear.pattern) \subseteq clear.keys)
     IN /\ store' = r.st
        /\ cleared' = IF ~t.threw /\ ~raced
                       THEN cleared \cup {clear.pattern} ELSE cleared
        /\ lastSet' = IF ~t.threw
                      THEN [k \in DOMAIN lastSet |->
                              IF k \in clear.keys THEN NoSet ELSE lastSet[k]]
                      ELSE lastSet
        /\ lastOp' = Returned("clearPattern", clear.pattern, clear.ctx, t, both,
                              r.st # store, NoSet)
                       @@ Cleared(clear.keys, raced, clear.repeated)
  /\ clear' = NoClear
  /\ healthReport' = NoReport
  /\ UNCHANGED <<connVars, procVars, envVars, elapses>>
  /\ Unsettled

\* d seconds pass
ElapseSteps == {1, DefaultTtl}

Elapse(d) ==
  /\ Quiet
  /\ UNCHANGED mwVars
  /\ proc # "exited"
  /\ elapses < MaxElapse
  /\ elapses' = elapses + 1
  /\ store' = RedisElapse(store, d)
  /\ lastSet' = [k \in DOMAIN lastSet |->
                  IF ~lastSet[k].set THEN NoSet
                  ELSE IF Expired([lastSet[k] EXCEPT !.age = lastSet[k].age + d])
                       THEN OutlivedSet
                       ELSE [lastSet[k] EXCEPT !.age = lastSet[k].age + d]]
  /\ Unobserved
  /\ UNCHANGED <<connVars, procVars, envVars, clear, cleared>>
  /\ Unsettled

----------------------------------------------------------------------------
(* The cache middleware: cacheResponse, invalidateCache, blogCache,
   blogInvalidation, generateCacheKey, invalidateCachePatterns *)

PrefixBlogs == <<"b", "l", "o", "g", "s">>
PrefixBlog == <<"b", "l", "o", "g">>
PrefixUserBlogs == <<"u", "s", "e", "r", "-", "b", "l", "o", "g", "s">>
PrefixPopular == <<"p", "o", "p", "u", "l", "a", "r", "-", "b", "l", "o", "g", "s">>

\* blogCache with one ttl for every route
blogCacheGlobalTtl ==
  [list |-> [ttl |-> 300, prefix |-> PrefixBlogs],
   single |-> [ttl |-> 300, prefix |-> PrefixBlog],
   userBlogs |-> [ttl |-> 300, prefix |-> PrefixUserBlogs],
   popular |-> [ttl |-> 300, prefix |-> PrefixPopular]]

\* blogCache: the ttl and key prefix of each pre-configured middleware
blogCache ==
  [list |-> [ttl |-> 300, prefix |-> PrefixBlogs],
   single |-> [ttl |-> 900, prefix |-> PrefixBlog],
   userBlogs |-> [ttl |-> 600, prefix |-> PrefixUserBlogs],
   popular |-> [ttl |-> 1800, prefix |-> PrefixPopular]]

Star == <<"*">>
PatUserBlogs == PrefixUserBlogs \o <<":", "*">>
PatPopular == PrefixPopular \o <<":", "*">>

\* blogInvalidation: the patterns of each policy, in the order given
PolicyAll == <<PatBlogs, PatBlog, PatUserBlogs, PatPopular>>
PolicyUser(userId) == <<PrefixUserBlogs \o <<":", "*">> \o userId \o Star, PatBlogs>>
PolicySingle(blogId) == <<PrefixBlog \o <<":", "*">> \o blogId \o Star, PatBlogs>>

\* JSON.stringify(req.query) for a query of string parameters, a sequence of
\* [name, value]
RECURSIVE StringifyMembers(_)
StringifyMembers(q) ==
  IF q = <<>> THEN <<>>
  ELSE <<"\"">> \o Escape(Head(q).name) \o <<"\"", ":", "\"">>
       \o Escape(Head(q).value) \o <<"\"">>
       \o (IF Len(q) > 1 THEN <<",">> ELSE <<>>) \o StringifyMembers(Tail(q))
StringifyQuery(q) == <<"{">> \o StringifyMembers(q) \o <<"}">>

\* generateCacheKey(req, prefix)
generateCacheKey(reqPath, reqQuery, prefix) ==
  LET path == [i \in 1 .. Len(reqPath) |-> IF reqPath[i] = "/" THEN ":" ELSE reqPath[i]]
      query == IF Len(reqQuery) > 0 THEN <<":">> \o StringifyQuery(reqQuery) ELSE <<>>
  IN prefix \o path \o query

\* the blog written and its author
BlogId == <<"1">>
UserId == <<"7">>

\* the GET requests of the views that show the blog: req.path is the path below
\* the mount point of the router
View(name, path, query) == [name |-> name, path |-> path, query |-> query]
ViewList == View("list", <<"/">>, <<>>)
ViewListPage == View("list", <<"/">>, <<[name |-> <<"p">>, value |-> <<"2">>]>>)
ViewSingle == View("single", <<"/">> \o BlogId, <<>>)
ViewUserBlogs == View("userBlogs", <<"/">> \o UserId, <<>>)
ViewPopular == View("popular", <<"/">>, <<>>)
Views == {ViewList, ViewListPage, ViewSingle, ViewUserBlogs, ViewPopular}

ViewKey(v) == generateCacheKey(v.path, v.query, blogCache[v.name].prefix)
MwKeys == {ViewKey(v) : v \in Views}

\* cacheResponse treats every method except GET as not cacheable
CacheableAny(method) == TRUE

\* cacheResponse: `req.method !== 'GET'` passes the request on
Cacheable(method) == method = "GET"

\* cacheResponse testing `cachedData !== undefined`
IsHitDefined(cachedData) == cachedData # Undefined

\* cacheResponse: `if (cachedData)`
IsHit(cachedData) == Truthy(cachedData)

\* invalidateCache invalidating whatever the status
IsSuccessAny(statusCode) == TRUE

\* invalidateCache: `res.statusCode >= 200 && res.statusCode < 300`
IsSuccess(statusCode) == statusCode >= 200 /\ statusCode < 300

\* a request handed to its handler by next(): which middleware it went through
\* (mw), whether that wrapped res.json, the cache key, ttl and the outcome of the
\* cache read (cmds, ctx, hist; corrupt: the entry found was not JSON), for a
\* write the patterns in res.locals, and the version of the blogs its handler
\* read from the database, -1 before it read
Pending(mw, method, key, ttl, wrapped, cmds, ctx, hist, patterns) ==
  [pc |-> "handler", mw |-> mw, method |-> method, key |-> key, ttl |-> ttl,
   wrapped |-> wrapped, cmds |-> cmds, ctx |-> ctx, hist |-> hist,
   patterns |-> patterns, corrupt |-> FALSE, read |-> -1]

\* a response: who produced it (served: "cache" or "handler"), its status and
\* body, how the handler sent it (via: res.json, or "end" for a response without a
\* JSON body), and what the middleware did on the way
Response(r, served, status, via, body, cmds, changed, started) ==
  [mw |-> r.mw, method |-> r.method, key |-> r.key, served |-> served,
   handlerRan |-> served = "handler", status |-> status, via |-> via,
   body |-> body, wrapped |-> r.wrapped, cmds |-> cmds, changed |-> changed,
   state |-> r.ctx.state, answered |-> r.ctx.answered, hist |-> r.hist,
   started |-> started, patterns |-> r.patterns, corrupt |-> r.corrupt]

\* is the text stored under key not JSON
IsCorrupt(key) == key \in DOMAIN store /\ ~Parse(store[key].json).ok

\* cacheResponse without the `return` of its hit branch: after sending the cached
\* payload it goes on to wrap res.json and to call next()
MiddlewareRunNoReturn(method, g) ==
  IF ~Cacheable(method) THEN [sends |-> 0, nexts |-> 1, wrapped |-> FALSE]
  ELSE IF g.threw THEN [sends |-> 0, nexts |-> 1, wrapped |-> FALSE]
  ELSE IF IsHit(g.val) THEN [sends |-> 1, nexts |-> 1, wrapped |-> TRUE]
  ELSE [sends |-> 0, nexts |-> 1, wrapped |-> TRUE]

\* the body of a cacheResponse middleware for one request, g being what cache.get
\* did: how often it sent the cached payload (sends), how often it called next()
\* (nexts) and whether it wrapped res.json. A request that is not a GET returns
\* next() at once; an exception in the try block lands in the catch, which calls
\* next(); a hit returns res.json(cachedData); a miss wraps res.json and calls
\* next().
MiddlewareRun(method, g) ==
  IF ~Cacheable(method) THEN [sends |-> 0, nexts |-> 1, wrapped |-> FALSE]
  ELSE IF g.threw THEN [sends |-> 0, nexts |-> 1, wrapped |-> FALSE]
  ELSE IF IsHit(g.val) THEN [sends |-> 1, nexts |-> 0, wrapped |-> FALSE]
  ELSE [sends |-> 0, nexts |-> 1, wrapped |-> TRUE]

\* a request reaches a cacheResponse middleware: any method but GET goes to the
\* handler; a GET is looked up and answered from the cache on a hit, and goes to
\* the handler with res.json wrapped on a miss
CacheRequest(view, method) ==
  /\ Quiet
  /\ proc # "exited"
  /\ req = NoReq
  /\ LET key == ViewKey(view)
         ttl == blogCache[view.name].ttl
         g == get(key)
         run == MiddlewareRun(method, g)
         looked == Cacheable(method)
         p == [Pending("cache", method, key, ttl, run.wrapped,
                       IF looked THEN g.cmds ELSE 0, CallCtx,
                       IF looked THEN lastSet[key] ELSE NoSet, <<>>)
                 EXCEPT !.corrupt = looked /\ IsCorrupt(key)]
              @@ [sends |-> run.sends, nexts |-> run.nexts]
     IN /\ req' = IF run.nexts > 0 THEN p ELSE NoReq
        /\ mwOut' = IF run.sends > 0
                    THEN Response([p EXCEPT !.wrapped = FALSE], "cache", 200, "json",
                                  g.val, g.cmds, FALSE, FALSE)
                           @@ [sends |-> run.sends, nexts |-> run.nexts]
                    ELSE NoMwOut
  /\ Unobserved
  /\ Unsettled
  /\ UNCHANGED <<connVars, procVars, envVars, cacheVars, wreq, inval, db, otherInval>>

\* a GET reaches a cacheResponse middleware on a Ready manager: cache.get passes
\* isReady() and getClient() and sends GET, and cacheResponse waits at
\* `await cache.get(cacheKey)` for the promise of the command
CacheRequestSends(view) ==
  /\ Quiet
  /\ proc # "exited"
  /\ req = NoReq
  /\ isReady /\ getClientOk
  /\ req' = [Pending("cache", "GET", ViewKey(view), blogCache[view.name].ttl, FALSE, 1,
                     CallCtx, lastSet[ViewKey(view)], <<>>) EXCEPT !.pc = "get"]
  /\ mwOut' = NoMwOut
  /\ Unobserved
  /\ Unsettled
  /\ UNCHANGED <<connVars, procVars, envVars, cacheVars, wreq, inval, db, otherInval>>

\* the cache service stops responding with the connection established: the GET
\* it was sent is never answered, and the socket reports no error
ServiceStopsResponding ==
  /\ Quiet
  /\ proc # "exited"
  /\ req.pc = "get"
  /\ req' = [req EXCEPT !.pc = "unanswered"]
  /\ mwOut' = NoMwOut
  /\ Unobserved
  /\ Unsettled
  /\ UNCHANGED <<connVars, procVars, envVars, cacheVars, wreq, inval, db, otherInval>>

\* the reply of the GET arrives on the connection it was sent on: get returns,
\* and cacheResponse answers from the cache on a hit and hands the request to the
\* handler with res.json wrapped on a miss. Nothing else ends the wait: neither
\* get nor cacheResponse sets a timer.
GetReplied ==
  /\ Quiet
  /\ proc # "exited"
  /\ req.pc = "get"
  /\ isReady /\ getClientOk /\ Answers
  /\ LET g == get(req.key)
         p == [req EXCEPT !.pc = "handler", !.wrapped = TRUE, !.cmds = g.cmds,
                          !.corrupt = IsCorrupt(req.key)]
     IN IF IsHit(g.val)
        THEN /\ req' = NoReq
             /\ mwOut' = Response([p EXCEPT !.wrapped = FALSE], "cache", 200, "json",
                                  g.val, g.cmds, FALSE, FALSE)
        ELSE /\ req' = p
             /\ mwOut' = NoMwOut
  /\ Unobserved
  /\ Unsettled
  /\ UNCHANGED <<connVars, procVars, envVars, cacheVars, wreq, inval, db, otherInval>>

\* a write request reaches an invalidateCache middleware: the patterns go to
\* res.locals, res.json is wrapped, and the handler runs
InvalidateRequest(method, patterns) ==
  /\ Quiet
  /\ proc # "exited"
  /\ wreq = NoReq
  /\ inval = NoInval
  /\ wreq' = Pending("inval", method, <<>>, 0, TRUE, 0, CallCtx, NoSet, patterns)
  /\ mwOut' = NoMwOut
  /\ Unobserved
  /\ Unsettled
  /\ UNCHANGED <<connVars, procVars, envVars, cacheVars, req, inval, db, otherInval>>

\* the res.json of cacheResponse sending only once the set was stored
WrapperSendsOnceStored(data, t) == [sent |-> t.cmds = 1 /\ ~t.threw, body |-> data]

\* the res.json of cacheResponse: cache.set is called and not awaited, and the
\* handler's data goes to the original res.json whatever becomes of the set (t)
WrapperSends(data, t) == [sent |-> TRUE, body |-> data]

\* the handler of the request on a route (which: "cache" or "inval") responds
\* with status and data, through res.json or without a JSON body. The wrapper of
\* cacheResponse calls cache.set(cacheKey, data, ttl); the wrapper of
\* invalidateCache calls invalidateCachePatterns on a 2xx status.
HandlerResponds(which, status, via, data) ==
  /\ Quiet
  /\ proc # "exited"
  /\ LET q == IF which = "cache" THEN req ELSE wreq IN
     /\ q.pc = "handler"
     /\ q.mw = which
     /\ LET wrapper == q.wrapped /\ via = "json"
            caches == wrapper /\ q.mw = "cache"
            t == IF caches THEN SetTry(q.key, data, JsNum(q.ttl))
                 ELSE Did(FALSE, Undefined, 0, store)
            r == IF caches THEN set(q.key, data, JsNum(q.ttl))
                 ELSE Did(FALSE, Undefined, 0, store)
            stored == caches /\ r.cmds = 1 /\ ~t.threw
            starts == wrapper /\ q.mw = "inval" /\ IsSuccess(status)
            w == IF caches THEN WrapperSends(data, t)
                 ELSE [sent |-> TRUE, body |-> IF via = "json" THEN data ELSE Undefined]
        IN /\ store' = r.st
           /\ lastSet' = IF stored
                         THEN [lastSet EXCEPT ![q.key] = [set |-> TRUE, val |-> data,
                                                          arg |-> JsNum(q.ttl), age |-> 0]]
                         ELSE lastSet
           /\ cleared' = IF stored THEN {p \in cleared : ~GlobMatch(p, q.key)} ELSE cleared
           /\ inval' = IF starts /\ Len(q.patterns) > 0
                       THEN [pc |-> "keys", patterns |-> q.patterns, keys |-> {},
                             policy |-> q.patterns, version |-> db, ran |-> TRUE]
                       ELSE inval
           /\ mwOut' = Response(q, "handler", status, via, w.body,
                                q.cmds + r.cmds, r.st # store, starts)
                         @@ [sent |-> w.sent, handled |-> <<status, via, data>>,
                             setCalled |-> caches, setFailed |-> t.threw,
                             stored |-> stored]
  /\ req' = IF which = "cache" THEN NoReq ELSE req
  /\ wreq' = IF which = "inval" THEN NoReq ELSE wreq
  /\ Unobserved
  /\ Unsettled
  /\ UNCHANGED <<connVars, procVars, envVars, clear, elapses, db, otherInval>>

\* invalidateCachePatterns after the clearPattern of its current pattern returned
\* (ran: it issued its commands and none failed): the loop goes on to the next
\* pattern; an exception ends it in the catch
LoopOn(threw, ran) ==
  IF threw \/ Len(inval.patterns) = 1 THEN NoInval
  ELSE [inval EXCEPT !.pc = "keys", !.patterns = Tail(inval.patterns), !.keys = {},
                     !.ran = inval.ran /\ ran]

\* invalidateCachePatterns returned: the patterns it was given, the version of
\* the database when it was called, and whether every clearPattern ran
Invalidated(threw, ran) ==
  IF LoopOn(threw, ran) = NoInval
  THEN [mw |-> "invalidation", policy |-> inval.policy, version |-> inval.version,
        ran |-> inval.ran /\ ran /\ ~threw]
  ELSE NoMwOut

\* invalidateCachePatterns: clearPattern of the current pattern, to the reply of KEYS
InvalidateKeys ==
  /\ Quiet
  /\ proc # "exited"
  /\ inval.pc = "keys"
  /\ LET pattern == Head(inval.patterns)
         t == ClearKeysTry(pattern)
         r == clearPatternKeys(pattern)
     IN IF ~t.threw /\ t.cmds = 1 /\ t.keys # {}
        THEN /\ inval' = [inval EXCEPT !.pc = "del", !.keys = t.keys]
             /\ mwOut' = NoMwOut
        ELSE /\ inval' = LoopOn(r.threw, ~t.threw /\ t.cmds = 1)
             /\ mwOut' = Invalidated(r.threw, ~t.threw /\ t.cmds = 1)
  /\ Unobserved
  /\ Unsettled
  /\ UNCHANGED <<connVars, procVars, envVars, cacheVars, req, wreq, db, otherInval>>

\* invalidateCachePatterns: the DEL of the clearPattern in flight
InvalidateDel ==
  /\ Quiet
  /\ proc # "exited"
  /\ inval.pc = "del"
  /\ LET t == ClearDelTry(inval.keys)
         r == clearPatternDel(inval.keys)
     IN /\ store' = r.st
        /\ lastSet' = IF ~t.threw
                      THEN [k \in DOMAIN lastSet |->
                              IF k \in inval.keys THEN NoSet ELSE lastSet[k]]
                      ELSE lastSet
        /\ inval' = LoopOn(r.threw, ~t.threw)
        /\ mwOut' = Invalidated(r.threw, ~t.threw)
  /\ Unobserved
  /\ Unsettled
  /\ UNCHANGED <<connVars, procVars, envVars, clear, cleared, elapses, req, wreq, db, otherInval>>

\* the invalidateCachePatterns calls of two writes answered at about the same
\* time: w = 1 is held in inval, w = 2 in otherInval
InvalOf(w) == IF w = 1 THEN inval ELSE otherInval
SetInval(w, iv) ==
  IF w = 1 THEN inval' = iv /\ otherInval' = otherInval
  ELSE inval' = inval /\ otherInval' = iv

\* write w, guarded by the policy patterns, is answered with a 2xx status: the
\* res.json wrapper of invalidateCache calls invalidateCachePatterns. The call is
\* recorded with the Connection State and the keys stored when it was made
\* (state, before) and whether a DEL of it was given keys another call had
\* deleted (gone).
WriteInvalidates(w, patterns) ==
  /\ Quiet
  /\ proc # "exited"
  /\ InvalOf(w).pc = "idle"
  /\ req = NoReq
  /\ SetInval(w, [pc |-> "keys", patterns |-> patterns, keys |-> {}, policy |-> patterns,
                  ran |-> TRUE, state |-> ConnectionState, before |-> DOMAIN store,
                  gone |-> FALSE])
  /\ mwOut' = NoMwOut
  /\ Unobserved
  /\ Unsettled
  /\ UNCHANGED <<connVars, procVars, envVars, cacheVars, req, wreq, db>>

\* the next step of the invalidateCachePatterns call of write w, as InvalidateKeys
\* and InvalidateDel take it: KEYS of the current pattern, or the DEL of the keys
\* found; the loop goes on to the next pattern, and the call ends after the last
\* one or in its catch
InvalidationStep(w) ==
  /\ Quiet
  /\ proc # "exited"
  /\ InvalOf(w).pc \in {"keys", "del"}
  /\ LET iv == InvalOf(w)
         atKeys == iv.pc = "keys"
         t == IF atKeys THEN ClearKeysTry(Head(iv.patterns)) ELSE ClearDelTry(iv.keys)
         r == IF atKeys THEN clearPatternKeys(Head(iv.patterns))
              ELSE clearPatternDel(iv.keys)
         ran == ~t.threw /\ (atKeys => t.cmds = 1)
         rest == Tail(iv.patterns)
         gone == iv.gone \/ (~atKeys /\ ~(iv.keys \subseteq DOMAIN store))
     IN /\ store' = r.st
        /\ lastSet' = IF ~atKeys /\ ~t.threw
                      THEN [k \in DOMAIN lastSet |->
                              IF k \in iv.keys THEN NoSet ELSE lastSet[k]]
                      ELSE lastSet
        /\ SetInval(w, IF atKeys /\ ran /\ t.keys # {}
                       THEN [iv EXCEPT !.pc = "del", !.keys = t.keys]
                       ELSE [iv EXCEPT !.pc = IF r.threw \/ rest = <<>> THEN "done"
                                              ELSE "keys",
                                       !.patterns = rest, !.keys = {},
                                       !.ran = iv.ran /\ ran /\ ~r.threw,
                                       !.gone = gone])
  /\ mwOut' = NoMwOut
  /\ Unobserved
  /\ Unsettled
  /\ UNCHANGED <<connVars, procVars, envVars, clear, cleared, elapses, req, wreq, db>>

\* the invalidateCachePatterns calls made have returned and none is running
InvalidationsReturn ==
  /\ Quiet
  /\ proc # "exited"
  /\ "done" \in {inval.pc, otherInval.pc}
  /\ {inval.pc, otherInval.pc} \subseteq {"idle", "done"}
  /\ inval' = NoInval
  /\ otherInval' = NoInval
  /\ mwOut' = NoMwOut
  /\ Unobserved
  /\ Unsettled
  /\ UNCHANGED <<connVars, procVars, envVars, cacheVars, req, wreq, db>>

----------------------------------------------------------------------------
(* The handlers of the blog routes and the database, as far as the cache sees
   them *)

\* the payload of a view at a version of the blogs
Blogs(version) == JsArr(<<JsNum(version)>>)

\* the handler of the pending GET reads the blogs from the database
HandlerReads ==
  /\ Quiet
  /\ proc # "exited"
  /\ req.pc = "handler" /\ req.mw = "cache"
  /\ req.read = -1
  /\ req' = [req EXCEPT !.read = db]
  /\ mwOut' = NoMwOut
  /\ Unobserved
  /\ Unsettled
  /\ UNCHANGED <<connVars, procVars, envVars, cacheVars, wreq, inval, db, otherInval>>

\* the handler of the pending write commits it to the database
HandlerCommits ==
  /\ Quiet
  /\ proc # "exited"
  /\ wreq.pc = "handler" /\ wreq.mw = "inval"
  /\ wreq.read = -1
  /\ db < MaxWrites
  /\ db' = db + 1
  /\ wreq' = [wreq EXCEPT !.read = db + 1]
  /\ mwOut' = NoMwOut
  /\ Unobserved
  /\ Unsettled
  /\ UNCHANGED <<connVars, procVars, envVars, cacheVars, req, inval, otherInval>>

\* another writer of the cache service leaves text that is not JSON under a key
CorruptEntry(k) ==
  /\ Quiet
  /\ proc # "exited"
  /\ serviceUp
  /\ ~IsCorrupt(k)
  /\ store' = Put(store, k, Entry(<<"[">>, -1))
  /\ lastSet' = [lastSet EXCEPT ![k] = NoSet]
  /\ cleared' = {p \in cleared : ~GlobMatch(p, k)}
  /\ Unobserved
  /\ Unsettled
  /\ UNCHANGED <<connVars, procVars, envVars, clear, elapses, mwVars>>

----------------------------------------------------------------------------
(* Specification of the connection lifecycle *)

InitCache ==
  /\ store = <<>>
  /\ clear = NoClear
  /\ lastSet = [k \in Keys \cup MwKeys |-> NoSet]
  /\ cleared = {}
  /\ elapses = 0

InitMw ==
  /\ req = NoReq
  /\ wreq = NoReq
  /\ inval = NoInval
  /\ otherInval = NoInval
  /\ mwOut = NoMwOut
  /\ db = 0

Init == InitConn /\ InitCache /\ InitMw

Next ==
  \/ TakeResult
  \/ InitializeRedis
  \/ RetryTimerFires
  \/ SocketConnects
  \/ SocketAttemptFails
  \/ \E who \in Who : SocketError(who)
  \/ \E who \in Who : SocketReconnects(who)
  \/ \E who \in Who : SocketReconnectFails(who)
  \/ PingOk
  \/ PingFails
  \/ ServiceDown
  \/ ServiceUp
  \/ \E sig \in Signals : Signal(sig)
  \/ \E who \in Who : QuitOk(who)
  \/ ProcessExit
  \/ DetailedHealthCheck
  \/ HealthCheck
  \/ ReadinessCheck
  \/ LivenessCheck

Spec == Init /\ [][Next]_vars

----------------------------------------------------------------------------
(* Specification of the facade over the whole connection lifecycle *)

\* the connection lifecycle without signals from outside
ConnNext ==
  \/ TakeResult
  \/ InitializeRedis
  \/ RetryTimerFires
  \/ SocketConnects
  \/ SocketAttemptFails
  \/ \E who \in Who : SocketError(who)
  \/ \E who \in Who : SocketReconnects(who)
  \/ \E who \in Who : SocketReconnectFails(who)
  \/ PingOk
  \/ PingFails
  \/ ServiceDown
  \/ ServiceUp
  \/ ProcessExit

\* facade calls on one key and one pattern, in every state of the connection
FacadeValues == {JsArr(<<JsNum(1)>>), Undefined}

NextFacade ==
  \/ ConnNext
  \/ CacheGet(KeyBlogsList)
  \/ \E v \in FacadeValues : CacheSet(KeyBlogsList, v, Undefined)
  \/ CacheDel(KeyBlogsList)
  \/ ClearPatternKeys(PatBlogs)
  \/ ClearPatternDel

SpecFacade == Init /\ [][NextFacade]_vars

----------------------------------------------------------------------------
(* Specification of the stored values over time *)

\* values, among them every falsy JSON value
RoundTripValues ==
  {Null, JsBool(FALSE), JsNum(0), JsStr(<<>>), JsStr(<<"a", "\"">>),
   JsArr(<<JsNum(12), JsStr(<<"b">>)>>)}

\* the ttl argument: omitted, one second, or zero (which SETEX refuses). Every
\* value is set under one key, next to a second key holding a value of its own.
TtlArgs == {Undefined, JsNum(1), JsNum(0)}

\* The connection is set up once; the service may become unreachable and the
\* socket of the client may break and reconnect. An attempt made while the
\* service is unreachable stays pending until it is reachable again.
NextRoundTrip ==
  \/ TakeResult
  \/ InitializeRedis
  \/ SocketConnects
  \/ PingOk
  \/ ServiceDown
  \/ ServiceUp
  \/ SocketError(0)
  \/ SocketReconnects(0)
  \/ \E k \in Keys : CacheGet(k)
  \/ \E v \in RoundTripValues, t \in TtlArgs : CacheSet(KeyBlogsList, v, t)
  \/ CacheSet(KeyBlog1, JsBool(TRUE), Undefined)
  \/ \E k \in Keys : CacheDel(k)
  \/ \E pattern \in {PatBlogs, PatBlog} : ClearPatternKeys(pattern)
  \/ ClearPatternDel
  \/ \E d \in ElapseSteps : Elapse(d)

SpecRoundTrip == Init /\ [][NextRoundTrip]_vars

----------------------------------------------------------------------------
(* Specification of the cache middleware *)

\* what a handler may pass to res.json, among them every falsy JSON value
Payloads == {Null, JsBool(FALSE), JsNum(0), JsStr(<<>>), JsArr(<<JsStr(<<"t">>)>>)}
\* how the handler of a request may respond: <<status, via, data>>. The list
\* view returns any payload and the single view one blog, or they respond without
\* a JSON body; a write succeeds or fails, with a JSON body or without.
TheBlog == JsArr(<<JsStr(<<"t">>)>>)
HandlerResponses(r) ==
  IF r.pc # "handler" THEN {}
  ELSE IF r.mw = "cache"
       THEN {<<200, "json", data>> :
               data \in IF r.key = ViewKey(ViewList) THEN Payloads ELSE {TheBlog}}
            \cup {<<404, "json", JsStr(<<"e">>)>>, <<404, "end", Undefined>>}
       ELSE {<<201, "json", TheBlog>>, <<500, "json", JsStr(<<"e">>)>>,
             <<204, "end", Undefined>>, <<404, "end", Undefined>>}
Methods == {"GET", "POST"}
Policies == {PolicyAll, PolicyUser(UserId), PolicySingle(BlogId)}

\* Requests pass through the middleware one at a time, each after the invalidation
\* of the write before it has ended, on a connection set up once whose service may
\* become unreachable, with time passing.
NextMiddleware ==
  \/ TakeResult
  \/ InitializeRedis
  \/ SocketConnects
  \/ PingOk
  \/ ServiceDown
  \/ ServiceUp
  \/ SocketError(0)
  \/ SocketReconnects(0)
  \/ \E v \in {ViewList, ViewSingle}, m \in Methods :
       inval = NoInval /\ wreq = NoReq /\ CacheRequest(v, m)
  \/ \E ps \in Policies : req = NoReq /\ InvalidateRequest("POST", ps)
  \/ \E h \in HandlerResponses(req) : HandlerResponds("cache", h[1], h[2], h[3])
  \/ \E h \in HandlerResponses(wreq) : HandlerResponds("inval", h[1], h[2], h[3])
  \/ InvalidateKeys
  \/ InvalidateDel
  \/ CorruptEntry(ViewKey(ViewList))
  \/ Elapse(DefaultTtl)

SpecMiddleware == Init /\ [][NextMiddleware]_vars

----------------------------------------------------------------------------
(* Specification of a read racing a write *)

\* GETs of the blog list and writes of the blogs are in flight together on a
\* connection that is set up once and stays up: the handler of a GET reads the
\* database and responds with what it read, the handler of a write commits and
\* responds 201, and the invalidation runs while further requests arrive.
NextRace ==
  \/ TakeResult
  \/ InitializeRedis
  \/ SocketConnects
  \/ PingOk
  \/ ServiceUp
  \/ CacheRequest(ViewList, "GET")
  \/ HandlerReads
  \/ req.pc = "handler" /\ req.read >= 0
       /\ HandlerResponds("cache", 200, "json", Blogs(req.read))
  \/ \E ps \in Policies : InvalidateRequest("POST", ps)
  \/ HandlerCommits
  \/ wreq.pc = "handler" /\ wreq.read >= 0
       /\ HandlerResponds("inval", 201, "json", TheBlog)
  \/ InvalidateKeys
  \/ InvalidateDel

SpecRace == Init /\ [][NextRace]_vars

----------------------------------------------------------------------------
(* Specification of the connection lifecycle with its scheduling *)

\* Timers fire, socket attempts are made and answered or refused, pending calls
\* settle and results are taken: every step of the program and of its transport
\* that stays possible is taken. Whether the service is reachable is up to the
\* environment.
Progress ==
  /\ WF_vars(TakeResult)
  /\ WF_vars(InitializeRedis)
  /\ WF_vars(RetryTimerFires)
  /\ WF_vars(SocketConnects)
  /\ WF_vars(SocketAttemptFails)
  /\ WF_vars(PingOk)
  /\ WF_vars(PingFails)
  /\ WF_vars(ProcessExit)
  /\ \A who \in 0 .. MaxOrphans :
       /\ WF_vars(who \in Who /\ SocketError(who))
       /\ WF_vars(who \in Who /\ SocketReconnects(who))
       /\ WF_vars(who \in Who /\ SocketReconnectFails(who))

SpecRecovery == Init /\ [][ConnNext]_vars /\ Progress

----------------------------------------------------------------------------
(* Specification of the cache keys *)

\* requests as they reach generateCacheKey: the prefix of the middleware reached,
\* req.path, req.query (the parameters in the order of the URL) and the user the
\* request was authenticated as
KeyRequests ==
  [prefix : {PrefixBlogs, PrefixBlog},
   user : {<<"u", "1">>, <<"u", "2">>},
   path : {<<"/">>, <<"/">> \o BlogId},
   query : {<<>>,
            <<[name |-> <<"p">>, value |-> <<"2">>]>>,
            <<[name |-> <<"p">>, value |-> <<"3">>]>>,
            <<[name |-> <<"p">>, value |-> <<"2">>], [name |-> <<"s">>, value |-> <<"a">>]>>,
            <<[name |-> <<"s">>, value |-> <<"a">>], [name |-> <<"p">>, value |-> <<"2">>]>>}]

\* a key that also carries the requester
CacheKeyPerRequester(r) ==
  r.user \o <<":">> \o generateCacheKey(r.path, r.query, r.prefix)

\* cacheResponse: `generateCacheKey(req, keyPrefix)`, which reads req.path and
\* req.query of the request and nothing else
CacheKey(r) == generateCacheKey(r.path, r.query, r.prefix)

\* the keys of two requests, and what a GET of the key of b finds in a keyspace
\* where the blog was stored under the key of a
GenerateKeys(a, b) ==
  /\ Quiet
  /\ proc # "exited"
  /\ mwOut' = [mw |-> "keys", a |-> a, b |-> b,
                ka |-> CacheKey(a), kb |-> CacheKey(b),
                found |-> RedisGet(RedisSetEx(<<>>, CacheKey(a), blogCache.list.ttl,
                                              Stringify(TheBlog)).st, CacheKey(b))]
  /\ Unobserved
  /\ Unsettled
  /\ UNCHANGED <<connVars, procVars, envVars, cacheVars, req, wreq, inval, db, otherInval>>

NextKey ==
  \/ TakeResult
  \/ \E a \in KeyRequests, b \in KeyRequests : GenerateKeys(a, b)

SpecKey == Init /\ [][NextKey]_vars

----------------------------------------------------------------------------
(* Specification of requests waiting for the cache service *)

\* GETs pass through cacheResponse one at a time on a connection that is set up
\* once and stays established; the lookup of a request is sent and its reply
\* awaited, and the service may stop responding while a lookup is pending.
NextWaiting ==
  \/ TakeResult
  \/ InitializeRedis
  \/ SocketConnects
  \/ PingOk
  \/ ServiceUp
  \/ \E v \in {ViewList, ViewSingle} : CacheRequestSends(v)
  \/ ServiceStopsResponding
  \/ GetReplied
  \/ \E h \in HandlerResponses(req) : HandlerResponds("cache", h[1], h[2], h[3])

\* every step of the program, of its transport and of its handlers that stays
\* possible is taken, and a service that has not stopped responding replies
WaitingProgress ==
  /\ WF_vars(TakeResult)
  /\ WF_vars(InitializeRedis)
  /\ WF_vars(SocketConnects)
  /\ WF_vars(PingOk)
  /\ WF_vars(GetReplied)
  /\ WF_vars(\E h \in HandlerResponses(req) : HandlerResponds("cache", h[1], h[2], h[3]))

SpecWaiting == Init /\ [][NextWaiting]_vars /\ WaitingProgress

----------------------------------------------------------------------------
(* Specification of two invalidations running together *)

\* On a connection that is set up once and stays up, GETs populate the keys of
\* the four views while no invalidation runs; then the invalidations of two writes
\* run, their KEYS and DEL steps interleaved in every order, with no request
\* populating the cache meanwhile.
NextInvalidations ==
  \/ TakeResult
  \/ InitializeRedis
  \/ SocketConnects
  \/ PingOk
  \/ ServiceUp
  \/ \E v \in {ViewList, ViewSingle, ViewUserBlogs, ViewPopular} :
       inval = NoInval /\ otherInval = NoInval /\ CacheRequest(v, "GET")
  \/ req.pc = "handler" /\ HandlerResponds("cache", 200, "json", TheBlog)
  \/ \E w \in {1, 2}, ps \in Policies : WriteInvalidates(w, ps)
  \/ \E w \in {1, 2} : InvalidationStep(w)
  \/ InvalidationsReturn

SpecInvalidations == Init /\ [][NextInvalidations]_vars

----------------------------------------------------------------------------
(* Claims about the connection lifecycle *)

\* C2: with the cache service unreachable from process start and never becoming
\* reachable, the cache layer never terminates the process: unless a signal or
\* an exception from elsewhere arrived, the process is still running.
C2_ProcessSurvivesAbsentCache ==
  (~everUp /\ shutdownSignal \notin Signals) => proc = "running"

\* C3: connect() never raises: no invocation of connect() settles by rejecting.
C3_ConnectNeverRejects ==
  connResult.outcome # "rejected"

\* C4: connect() returns success/failure: an invocation that resolves returns a
\* truthy value exactly when the connection is Ready at that moment.
C4_ConnectReturnsSuccess ==
  connResult.outcome = "resolved" => (Truthy(connResult.value) <=> connResult.ready)

\* C8: after N = maxRetries consecutive failures the manager is in CircuitOpen: its
\* circuit-open flag is true and no ordinary reconnect attempt is scheduled.
C8_CircuitOpensAfterThreshold ==
  retryAttempts >= maxRetries =>
    (ManagerField("isCircuitBreakerOpen") = JsBool(TRUE) /\ retryTimer = -1)

\* C9: an open circuit is probed: whenever the failure threshold has been reached,
\* either the single probe attempt is scheduled (the cooldown is running) or it is
\* in progress.
C9_OpenCircuitIsProbed ==
  retryAttempts >= maxRetries =>
    (retryTimer >= 0 \/ connPc \in {"awaitConnect", "awaitPing"})

\* C10: the detailed health report reflects the circuit breaker: isOpen is a
\* boolean, failures is the manager's consecutive-failure count, and once the
\* threshold of failures is reached isOpen is true.
C10_HealthReflectsBreaker ==
  healthReport.taken =>
    /\ healthReport.isOpen.t = "bool"
    /\ healthReport.failures = JsNum(healthReport.atRetryAttempts)
    /\ (healthReport.atRetryAttempts >= maxRetries => healthReport.isOpen = JsBool(TRUE))

\* C11: getClient() returns the transport handle only when the manager is Ready:
\* whenever it returns instead of throwing, this.client is connected and ready.
C11_GetClientOnlyWhenReady ==
  getClientOk => client.st = "ready"

\* C12: disconnect() is terminal: once it has been called no connection attempt is
\* started any more, and once it has returned isReady() never reports true.
C12_DisconnectIsTerminal ==
  [][discPc # "idle" =>
       /\ (connPc' = "awaitConnect" => connPc = "awaitConnect")
       /\ (discPc = "done" => ~isReady')]_vars

\* C13: disconnect() releases the transport on every exit path: when it returns,
\* no client the manager created is open and isConnected is false.
C13_DisconnectReleases ==
  [][(discPc # "done" /\ discPc' = "done") =>
       (~isConnected' /\ ~IsOpen(client') /\ orphans' = <<>>)]_vars

\* C35: the manager holds a single logical connection: in every state at most one
\* client the manager created is open or connecting, and no event of a superseded
\* client changes the manager's connected flag.
C35_SingleConnection ==
  /\ [](Len(orphans) + (IF IsOpen(client) THEN 1 ELSE 0) <= 1)
  /\ [][(\E who \in 1 .. Len(orphans) :
           SocketError(who) \/ SocketReconnects(who) \/ SocketReconnectFails(who))
        => isConnected' = isConnected]_vars

----------------------------------------------------------------------------
(* Claims about the facade *)

\* C1: get, set, del and clearPattern never throw to their caller, in every
\* connection state and for every failure, also one after KEYS was answered; a get
\* that was not served (manager not Ready, or a failure inside) returns null.
C1_FacadeNeverThrows ==
  lastOp.op # "none" =>
    /\ ~lastOp.threw
    /\ (lastOp.op = "get" /\ (lastOp.state # "Ready" \/ lastOp.caught))
         => lastOp.val = Null
    /\ lastOp.op # "get" => lastOp.val = Undefined

\* a clearPattern whose KEYS was answered and whose DEL failed has returned
C1_Witness ==
  lastOp.op = "clearPattern" /\ lastOp.caught /\ lastOp.cmds = 2

\* C7: a facade call made while the manager is not Ready (Disconnected, Connecting
\* or CircuitOpen) returns its miss / no-op outcome, issues no command on the
\* transport and leaves the keyspace as it is.
C7_NotReadyIsNoOp ==
  (lastOp.op # "none" /\ lastOp.state # "Ready") =>
    /\ lastOp.cmds = 0
    /\ ~lastOp.threw
    /\ lastOp.val = (IF lastOp.op = "get" THEN Null ELSE Undefined)
    /\ ~lastOp.changed

\* a set called past the retry limit has returned
C7_Witness ==
  lastOp.op = "set" /\ lastOp.state = "CircuitOpen"

\* C5: round trip: a get of K on a Ready connection whose GET is answered, after a
\* set(K, V, ttl) the service accepted, before the ttl has run out and with no
\* delete or invalidation of K in between, returns V.
C5_RoundTrip ==
  (/\ lastOp.op = "get"
   /\ lastOp.state = "Ready" /\ lastOp.answered
   /\ lastOp.hist.set /\ ~Expired(lastOp.hist))
  => (~lastOp.threw /\ lastOp.val = lastOp.hist.val)

\* a get of a key set to the empty string a while ago, within its ttl, has returned
C5_Witness ==
  /\ lastOp.op = "get"
  /\ lastOp.state = "Ready" /\ lastOp.answered
  /\ lastOp.hist.set /\ ~Expired(lastOp.hist)
  /\ lastOp.hist.val = JsStr(<<>>) /\ lastOp.hist.age > 0

\* C6: a get of K after the ttl of the last accepted set(K, V, ttl) has run out is
\* a miss, and every entry held by the service has an expiry: the ttl argument of
\* the set that stored it (300 when omitted) less the time passed since.
C6_ExpiryHonoured ==
  /\ (lastOp.op = "get" /\ Expired(lastOp.hist)) => lastOp.val = Null
  /\ \A k \in DOMAIN store :
       /\ lastSet[k].set
       /\ store[k].ex > 0
       /\ store[k].ex =
            (IF lastSet[k].arg = Undefined THEN 300 ELSE lastSet[k].arg.n) - lastSet[k].age

\* a get of a key whose ttl has run out, on a Ready connection that answers, has
\* returned
C6_Witness ==
  /\ lastOp.op = "get"
  /\ lastOp.state = "Ready" /\ lastOp.answered
  /\ Expired(lastOp.hist)

\* C20: clearPattern is idempotent: a clearPattern(P) called on a Ready connection
\* that met no failure, with no key matching P stored while it ran, leaves no
\* stored key matching P; called again with nothing stored since, it issues KEYS
\* alone and leaves the store as it is; with no key matching it changes nothing
\* and is not an error.
C20_ClearPatternIdempotent ==
  (lastOp.op = "clearPattern" /\ lastOp.state = "Ready" /\ ~lastOp.caught) =>
    /\ ~lastOp.threw
    /\ ~lastOp.raced => RedisKeys(store, lastOp.key) = {}
    /\ lastOp.repeated => (lastOp.cmds = 1 /\ ~lastOp.changed)
    /\ lastOp.found = {} => (lastOp.cmds = 1 /\ ~lastOp.changed)
    /\ lastOp.found # {} => lastOp.cmds = 2

\* a clearPattern repeated after one that deleted keys has returned, other keys
\* being stored
C20_Witness ==
  /\ lastOp.op = "clearPattern" /\ lastOp.state = "Ready" /\ ~lastOp.caught
  /\ lastOp.repeated
  /\ store # <<>>

\* C32: a transport failure of a facade call made on a Ready connection is
\* reported to the manager: the step in which a call returns after a command it
\* issued went unanswered increments the manager's consecutive-failure count.
C32_FailureReported ==
  [][(/\ lastOp'.op # "none"
      /\ lastOp'.state = "Ready"
      /\ lastOp'.caught /\ lastOp'.cmds >= 1 /\ ~Answers)
     => retryAttempts' = retryAttempts + 1]_vars

----------------------------------------------------------------------------
(* Claims about the cache middleware *)

\* C14: the response cache middleware applies only to GET requests: a request
\* with another method reaches the handler with no cache read, with res.json not
\* wrapped, and its response writes no cache entry.
C14_OnlyGetIsCached ==
  /\ (req.pc = "handler" /\ req.mw = "cache" /\ req.method # "GET")
       => (~req.wrapped /\ req.cmds = 0)
  /\ (mwOut.mw = "cache" /\ mwOut.method # "GET")
       => /\ mwOut.handlerRan
          /\ ~mwOut.wrapped
          /\ mwOut.cmds = 0
          /\ ~mwOut.changed

\* a POST through cacheResponse was answered with a JSON body while the cache
\* was Ready and answering
C14_Witness ==
  /\ mwOut.mw = "cache" /\ mwOut.method = "POST"
  /\ mwOut.via = "json"
  /\ mwOut.state = "Ready" /\ mwOut.answered

\* C15: on a cache hit the middleware responds with the cached payload and the
\* handler is not invoked; the payload of every hit is the one stored for the key
\* by the last population, which has neither expired nor been invalidated.
C15_HitServesStoredPayload ==
  (mwOut.mw = "cache" /\ mwOut.served = "cache") =>
    /\ ~mwOut.handlerRan
    /\ mwOut.hist.set /\ ~Expired(mwOut.hist)
    /\ mwOut.body = mwOut.hist.val
    /\ mwOut.status = 200
    /\ ~mwOut.changed

\* a hit some time after the key was populated
C15_Witness ==
  /\ mwOut.mw = "cache" /\ mwOut.served = "cache"
  /\ mwOut.hist.age > 0

\* C16: read-through: with the cache Ready and answering, a GET whose key was
\* populated with payload P, before expiry or invalidation, is served from the
\* cache with P and without running the handler, for every JSON payload P.
C16_ReadThrough ==
  (/\ mwOut.mw = "cache" /\ mwOut.method = "GET"
   /\ mwOut.state = "Ready" /\ mwOut.answered
   /\ mwOut.hist.set /\ ~Expired(mwOut.hist))
  => (mwOut.served = "cache" /\ ~mwOut.handlerRan /\ mwOut.body = mwOut.hist.val)

\* C17: invalidation happens only for successful writes: a write answered with a
\* status outside 200-299 issues no clearPattern and leaves every entry as it is;
\* no invalidation is in flight before the handler has produced its result.
C17_InvalidateOnlyOnSuccess ==
  /\ (wreq.pc = "handler" /\ wreq.mw = "inval") => inval = NoInval
  /\ (mwOut.mw = "inval" /\ ~(mwOut.status >= 200 /\ mwOut.status <= 299))
       => /\ ~mwOut.started
          /\ inval = NoInval
          /\ mwOut.cmds = 0
          /\ ~mwOut.changed

\* a write answered 500 with a JSON body while entries were cached and the cache
\* was Ready
C17_Witness ==
  /\ mwOut.mw = "inval" /\ mwOut.status = 500 /\ mwOut.via = "json"
  /\ mwOut.state = "Ready" /\ mwOut.answered
  /\ store # <<>>

\* C18: for every write whose handler completes with a 2xx status, with a JSON
\* body or without, every pattern registered for the operation is passed to
\* clearPattern.
C18_SuccessInvalidates ==
  (mwOut.mw = "inval" /\ mwOut.status >= 200 /\ mwOut.status <= 299) =>
    /\ mwOut.started
    /\ inval.pc = "keys" /\ inval.patterns = mwOut.patterns

\* C19: the invalidation policy never under-invalidates: the key of every view
\* showing the written blog is matched by a pattern of the policy guarding the
\* write.
C19_NeverUnderInvalidates ==
  (wreq.pc = "handler" /\ wreq.mw = "inval") =>
    \A v \in Views :
      \E i \in 1 .. Len(wreq.patterns) : GlobMatch(wreq.patterns[i], ViewKey(v))

----------------------------------------------------------------------------
(* Claims about requests while the cache fails *)

\* C22: a cache failure is never visible as a request-level error: a GET through
\* cacheResponse that met a failure (manager not Ready, transport error on get,
\* an entry that is not JSON, transport error on set) is answered by the handler,
\* and the client receives the status and the body the handler produced.
C22_CacheFailureInvisible ==
  (/\ mwOut.mw = "cache" /\ mwOut.method = "GET"
   /\ \/ mwOut.state # "Ready"
      \/ ~mwOut.answered
      \/ mwOut.corrupt
      \/ (mwOut.handlerRan /\ mwOut.setFailed))
  => /\ mwOut.handlerRan
     /\ mwOut.sent
     /\ mwOut.status = mwOut.handled[1]
     /\ mwOut.body = (IF mwOut.handled[2] = "json" THEN mwOut.handled[3] ELSE Undefined)

\* a GET that found an entry that is not JSON on a Ready cache and whose set
\* failed afterwards, answered with the handler's JSON body
C22_Witness ==
  /\ mwOut.mw = "cache" /\ mwOut.method = "GET"
  /\ mwOut.corrupt /\ mwOut.state = "Ready" /\ mwOut.answered
  /\ mwOut.handlerRan /\ mwOut.setFailed
  /\ mwOut.status = 200 /\ mwOut.via = "json"

\* C33: a stored value that cannot be deserialized is a miss: in every state a
\* get of a key holding text that is not JSON, on a Ready connection that answers,
\* returns null without throwing; a GET request that found such an entry is handed
\* to its handler and answered with the handler's status and body.
C33_CorruptEntryIsMiss ==
  /\ \A k \in DOMAIN store :
       (IsCorrupt(k) /\ ConnectionState = "Ready" /\ Answers) =>
         (~get(k).threw /\ get(k).val = Null /\ get(k).cmds = 1)
  /\ (/\ mwOut.mw = "cache" /\ mwOut.method = "GET"
      /\ mwOut.corrupt /\ mwOut.state = "Ready" /\ mwOut.answered)
     => /\ mwOut.handlerRan
        /\ mwOut.status = mwOut.handled[1]
        /\ mwOut.body = (IF mwOut.handled[2] = "json" THEN mwOut.handled[3] ELSE Undefined)

\* a GET that read an entry that is not JSON was answered by its handler, whose
\* payload replaced the entry
C33_Witness ==
  /\ mwOut.mw = "cache" /\ mwOut.method = "GET"
  /\ mwOut.corrupt /\ mwOut.state = "Ready" /\ mwOut.answered
  /\ mwOut.handlerRan /\ mwOut.stored
  /\ ~IsCorrupt(mwOut.key)

\* C39: for every request the response cache middleware does exactly one of two
\* things, once: the step in which a request passes through it either sends the
\* cached payload or calls next(), never both and never neither; a request handed
\* to its handler was handed over by one call of next() with nothing sent from
\* the cache, and a request answered from the cache never reaches its handler.
C39_ExactlyOneOutcome ==
  /\ []((req.pc = "handler" /\ req.mw = "cache") => (req.nexts = 1 /\ req.sends = 0))
  /\ []((mwOut.mw = "cache" /\ mwOut.served = "cache")
         => (mwOut.sends = 1 /\ mwOut.nexts = 0 /\ req = NoReq))
  /\ [][(\E v \in {ViewList, ViewSingle}, m \in Methods : CacheRequest(v, m))
        => ((req'.pc = "handler") # (mwOut'.mw = "cache" /\ mwOut'.served = "cache"))]_vars

\* a GET whose lookup failed on a Ready connection was handed to its handler
C39_Witness ==
  /\ req.pc = "handler" /\ req.mw = "cache" /\ req.method = "GET"
  /\ req.ctx.state = "Ready" /\ ~req.ctx.answered
  /\ req.nexts = 1 /\ req.sends = 0

\* C26: on a miss the middleware stores the handler's payload only when the
\* handler produced it successfully: a response sent with a status outside 2xx is
\* not written to the cache.
C26_OnlySuccessIsStored ==
  (/\ mwOut.mw = "cache" /\ mwOut.handlerRan
   /\ ~(mwOut.status >= 200 /\ mwOut.status <= 299))
  => (~mwOut.stored /\ ~mwOut.changed)

\* C27: within one request the cache is populated only after the handler's result
\* is known and with that result, and population neither delays nor alters the
\* response: while the handler is pending nothing was stored for the request, and
\* the response goes out in the step that calls set, with the handler's status
\* and body, whether the set is skipped, fails or succeeds.
C27_PopulationAfterResult ==
  /\ (req.pc = "handler" /\ req.mw = "cache" /\ req.wrapped) =>
       (lastSet[req.key].set =>
          (req.hist.set /\ lastSet[req.key].val \in {req.hist.val, Undefined}))
  /\ (mwOut.mw = "cache" /\ mwOut.handlerRan /\ mwOut.setCalled) =>
       /\ mwOut.sent
       /\ mwOut.status = mwOut.handled[1]
       /\ mwOut.body = mwOut.handled[3]
       /\ mwOut.stored => lastSet[mwOut.key].val = mwOut.handled[3]

\* a miss on a Ready cache whose set then failed: the handler's payload was sent
C27_Witness ==
  /\ mwOut.mw = "cache" /\ mwOut.handlerRan /\ mwOut.setCalled
  /\ mwOut.state = "Ready" /\ mwOut.answered
  /\ mwOut.setFailed /\ ~mwOut.stored
  /\ mwOut.sent /\ mwOut.body = TheBlog

----------------------------------------------------------------------------
(* Claims about reads racing writes *)

\* C25: no stale reads after invalidation: when the invalidation of a committed
\* write has finished, every clearPattern of it having run, the cache holds no
\* entry under a key the policy covers whose payload was read from the database
\* before the write committed.
C25_NoStaleAfterInvalidation ==
  (mwOut.mw = "invalidation" /\ mwOut.ran) =>
    \A k \in DOMAIN store :
      (\E i \in 1 .. Len(mwOut.policy) : GlobMatch(mwOut.policy[i], k)) =>
        \A v \in 0 .. mwOut.version - 1 : store[k].json # Stringify(Blogs(v))

----------------------------------------------------------------------------
(* Claims about the configuration of the routes *)

\* C36: entries are stored with the ttl of their resource class: every entry the
\* middleware populated is under a key of prefix 'blogs', 'blog', 'user-blogs' or
\* 'popular-blogs' and was set with a ttl of 300, 900, 600 or 1800 seconds
\* respectively, never with the ttl of another class.
C36_TtlPerRoute ==
  \A k \in DOMAIN store :
    \E c \in {<<<<"b", "l", "o", "g", "s", ":">>, 300>>,
              <<<<"b", "l", "o", "g", ":">>, 900>>,
              <<<<"u", "s", "e", "r", "-", "b", "l", "o", "g", "s", ":">>, 600>>,
              <<<<"p", "o", "p", "u", "l", "a", "r", "-", "b", "l", "o", "g", "s", ":">>,
                1800>>} :
      /\ Len(k) >= Len(c[1]) /\ SubSeq(k, 1, Len(c[1])) = c[1]
      /\ lastSet[k].arg = JsNum(c[2])
      /\ store[k].ex = c[2]

\* entries of the four routes are cached together
C36_Witness ==
  Cardinality(DOMAIN store) = 4

----------------------------------------------------------------------------
(* Claims about invalidations running together *)

\* C34: concurrent invalidations are order-insensitive: when the invalidations of
\* two writes, both called on a Ready manager, have both returned, with no
\* population meanwhile, neither has failed and the keys stored are those stored
\* before that no pattern of either policy matches, whatever the order of their
\* KEYS and DEL steps.
C34_InvalidationsCommute ==
  (/\ inval.pc = "done" /\ otherInval.pc = "done"
   /\ inval.state = "Ready" /\ otherInval.state = "Ready") =>
    /\ inval.ran /\ otherInval.ran
    /\ DOMAIN store =
         {k \in inval.before \cup otherInval.before :
            /\ \A i \in 1 .. Len(inval.policy) : ~GlobMatch(inval.policy[i], k)
            /\ \A i \in 1 .. Len(otherInval.policy) : ~GlobMatch(otherInval.policy[i], k)}

\* two invalidations of different policies have returned, one of which was given
\* keys to delete that the other had deleted already
C34_Witness ==
  /\ inval.pc = "done" /\ otherInval.pc = "done"
  /\ inval.state = "Ready" /\ otherInval.state = "Ready"
  /\ inval.policy # otherInval.policy
  /\ inval.gone /\ inval.ran

----------------------------------------------------------------------------
(* Claims about the health endpoints *)

\* C21: the readiness probe does not depend on the cache: in every connection
\* state it responds 200 with ready: true and services.api: true, and only
\* services.redis varies, being true exactly when the manager is Ready.
C21_ReadinessIgnoresCache ==
  mwOut.mw = "readiness" =>
    /\ mwOut.status = 200
    /\ mwOut.ready = TRUE
    /\ mwOut.api = TRUE
    /\ mwOut.redis <=> mwOut.state = "Ready"

\* a readiness probe answered after the connection failed for good
C21_Witness ==
  /\ mwOut.mw = "readiness" /\ mwOut.state = "CircuitOpen"
  /\ mwOut.ready /\ ~mwOut.redis /\ mwOut.status = 200

\* C23: the basic and the detailed health endpoint report the cache state
\* without gating on it: they respond 200 with status 'ok' in every cache state,
\* the redis status is 'unhealthy' exactly when the ping issued on a Ready
\* connection fails, and the detailed report carries a ping round-trip latency
\* exactly when the connection is Ready and the ping succeeded.
C23_HealthReportsWithoutGating ==
  /\ mwOut.mw = "health" =>
       /\ mwOut.status = 200 /\ mwOut.top = "ok"
       /\ mwOut.redis = "healthy" <=> (mwOut.state = "Ready" /\ mwOut.answered)
       /\ mwOut.redis = "unhealthy" <=> (mwOut.state = "Ready" /\ ~mwOut.answered)
  /\ healthReport.taken =>
       /\ healthReport.httpStatus = 200 /\ healthReport.top = "ok"
       /\ healthReport.status = "unhealthy"
            <=> (healthReport.state = "Ready" /\ ~healthReport.answered)
       /\ healthReport.hasResponseTime
            <=> (healthReport.state = "Ready" /\ healthReport.answered)

\* a detailed report whose ping on a Ready connection failed
C23_Witness ==
  /\ healthReport.taken /\ healthReport.state = "Ready" /\ ~healthReport.answered
  /\ healthReport.status = "unhealthy" /\ ~healthReport.hasResponseTime
  /\ healthReport.httpStatus = 200

\* C24: the liveness probe has no cache dependency: in every cache state it
\* responds 200 with alive: true and the process uptime.
C24_LivenessIgnoresCache ==
  mwOut.mw = "liveness" =>
    (mwOut.status = 200 /\ mwOut.alive = TRUE /\ mwOut.hasUptime)

\* a liveness probe answered while the manager was connecting to a service out
\* of reach
C24_Witness ==
  /\ mwOut.mw = "liveness" /\ mwOut.state = "Connecting" /\ ~mwOut.answered
  /\ mwOut.alive /\ mwOut.status = 200

----------------------------------------------------------------------------
(* Claims about reconnection *)

\* C29: recovery: whenever the cache service is reachable, the manager gets to
\* Ready, unless the service becomes unreachable again first; this also after an
\* outage longer than the retry limit, and without a restart of the process.
C29_Recovers ==
  serviceUp ~> (ConnectionState = "Ready" \/ ~serviceUp)

\* C37: the retries scheduled by connect() are bounded: unless invocations of
\* connect() keep succeeding, from some moment on no retry timer is scheduled any
\* more (or the process has exited); failed invocations do not follow one another
\* without end.
C37_RetriesBounded ==
  \/ []<>(connResult.outcome = "resolved" /\ connResult.ready)
  \/ <>[](retryTimer = -1 \/ proc = "exited")

\* C30: every scheduled reconnect attempt waits min(retryCount x baseDelay,
\* maxDelay), with retryCount the number of failures counted before or with the
\* failure that scheduled it: the retry timer of connect() from retryAttempts, and
\* the socket of every client from its own retries.
C30_BackoffDelay ==
  /\ retryTimer >= 0 =>
       \E n \in {retryAttempts - 1, retryAttempts} :
         n >= 0 /\ retryTimer = Min(n * retryDelay, MaxSocketDelay)
  /\ \A who \in Who :
       ClientAt(who).wait >= 0 =>
         \E n \in {ClientAt(who).retries - 1, ClientAt(who).retries} :
           n >= 0 /\ ClientAt(who).wait = Min(n * retryDelay, MaxSocketDelay)

----------------------------------------------------------------------------
(* Claims about requests waiting for the cache service *)

\* C31: every cache operation completes: a GET request whose lookup was sent to
\* the cache service eventually leaves the lookup (it is answered from the cache
\* or handed to its handler), also when the service stops responding after the
\* Ready check and the command is never answered.
C31_LookupCompletes ==
  (req.pc \in {"get", "unanswered"}) ~> (req.pc \notin {"get", "unanswered"})

----------------------------------------------------------------------------
(* Claims about the cache key *)

\* C28: the cache key is a function of the path, the set of query parameters and
\* the prefix: two requests have the same key exactly when they have the same
\* prefix, the same path and the same set of parameter name/value pairs, in
\* whatever order the parameters were given.
C28_KeyDeterministic ==
  mwOut.mw = "keys" =>
    ((/\ mwOut.a.prefix = mwOut.b.prefix
      /\ mwOut.a.path = mwOut.b.path
      /\ {mwOut.a.query[i] : i \in DOMAIN mwOut.a.query}
           = {mwOut.b.query[i] : i \in DOMAIN mwOut.b.query})
     <=> mwOut.ka = mwOut.kb)

\* C38: the cache key depends only on the prefix, the path and the query: two
\* requests that differ only in the requester have the same key, so the entry
\* populated for one is the entry looked up for the other.
C38_KeyIgnoresRequester ==
  (/\ mwOut.mw = "keys"
   /\ mwOut.a.prefix = mwOut.b.prefix
   /\ mwOut.a.path = mwOut.b.path
   /\ mwOut.a.query = mwOut.b.query)
  => /\ mwOut.ka = mwOut.kb
     /\ ~mwOut.found.nil /\ Parse(mwOut.found.str).val = TheBlog

\* the keys of the same page of the list, requested by two users
C38_Witness ==
  /\ mwOut.mw = "keys"
  /\ mwOut.a.user # mwOut.b.user
  /\ mwOut.a.prefix = mwOut.b.prefix /\ mwOut.a.path = mwOut.b.path
  /\ mwOut.a.query = mwOut.b.query /\ Len(mwOut.a.query) = 2
  /\ mwOut.ka = mwOut.kb

====
